---------------------------- MODULE Spec2Model ----------------------------
(***************************************************************************)
(* Model of the rag-chatbot-demo retrieval core: the single-item embed     *)
(* endpoint (app/api/embed/route.ts: POST and GET), the vector search tool *)
(* (tools/vectorSearch.ts), the command-line retrieval probe               *)
(* (scripts/query.ts), the batch ingestion script (scripts/embed.ts) and  *)
(* the chat endpoint (app/api/chat/route.ts), all working on the           *)
(* content_chunks table (postgres/schema.sql).                             *)
(*                                                                         *)
(* A string is a record [txt, len]: txt names the text, len is its         *)
(* JavaScript length, the quantity zod's min/max compare.  A vector is a   *)
(* tuple of integers; every vector of the provider has squared norm 25.    *)
(***************************************************************************)
EXTENDS Integers, Sequences, FiniteSets, TLC

\* ------------------------------------------------------------------------
\* Bounds of the model
\* ------------------------------------------------------------------------
MaxPosts == 3
MaxConcPosts == 2
MaxSearchPosts == 1
MaxChatPosts == 1
MaxWords == 3
MaxParagraphs == 101
MaxSubmits == 2
MaxClock == 2
MaxInputs == 5

\* ------------------------------------------------------------------------
\* Program constants
\* ------------------------------------------------------------------------
MAX_CONTENT == 10000
MAX_SOURCE == 255
TOP_N == 5
BATCH_SIZE == 50
MAX_CHUNK_LENGTH == 512
CHUNK_OVERLAP == 50

\* ------------------------------------------------------------------------
\* JSON values of a request body
\* ------------------------------------------------------------------------
Str(t, n) == [type |-> "string", txt |-> t, len |-> n]
Undefined == [type |-> "undefined", txt |-> "", len |-> 0]
NumberVal == [type |-> "number", txt |-> "7", len |-> 0]

ContentInputs ==
  {Undefined, NumberVal, Str("", 0), Str("a", 1), Str("b", MAX_CONTENT),
   Str("l", MAX_CONTENT + 1)}
SourceInputs ==
  {Undefined, NumberVal, Str("", 0), Str("s", 1), Str("t", MAX_SOURCE),
   Str("u", MAX_SOURCE + 1)}

\* A body is text that is not JSON, a JSON value that is not an object, or
\* an object whose content and source keys hold the given values.
BadJson == [json |-> "invalid", content |-> Undefined, source |-> Undefined]
NullBody == [json |-> "null", content |-> Undefined, source |-> Undefined]
Obj(c, s) == [json |-> "object", content |-> c, source |-> s]
Bodies ==
  {BadJson, NullBody} \cup {Obj(c, s) : c \in ContentInputs, s \in SourceInputs}

\* ------------------------------------------------------------------------
\* embedRequestSchema (zod)
\* ------------------------------------------------------------------------
Issue(f, m) == [field |-> f, message |-> m]

\* StringIssues with the maximum compared by >= instead of >
StringIssuesOffByOne(v, f, max, emptyMsg, longMsg) ==
  IF v.type = "undefined" THEN <<Issue(f, "Required")>>
  ELSE IF v.type # "string" THEN <<Issue(f, "Expected string, received number")>>
  ELSE (IF v.len < 1 THEN <<Issue(f, emptyMsg)>> ELSE <<>>)
       \o (IF v.len >= max THEN <<Issue(f, longMsg)>> ELSE <<>>)

\* z.string().min(1, emptyMsg).max(max, longMsg) on the value of one key
StringIssues(v, f, max, emptyMsg, longMsg) ==
  IF v.type = "undefined" THEN <<Issue(f, "Required")>>
  ELSE IF v.type # "string" THEN <<Issue(f, "Expected string, received number")>>
  ELSE (IF v.len < 1 THEN <<Issue(f, emptyMsg)>> ELSE <<>>)
       \o (IF v.len > max THEN <<Issue(f, longMsg)>> ELSE <<>>)

\* embedRequestSchema that stops at the first key with an issue
embedRequestSchemaFirstOnly(body) ==
  IF body.json # "object" THEN <<Issue("", "Expected object, received null")>>
  ELSE LET c == StringIssues(body.content, "content", MAX_CONTENT,
                             "Content cannot be empty",
                             "Content too long (max 10,000 characters)")
       IN  IF c # <<>> THEN c
           ELSE StringIssues(body.source, "source", MAX_SOURCE,
                             "Source cannot be empty",
                             "Source too long (max 255 characters)")

\* safeParse(body).error.errors mapped to {field, message}; empty on success
embedRequestSchema(body) ==
  IF body.json # "object" THEN <<Issue("", "Expected object, received null")>>
  ELSE StringIssues(body.content, "content", MAX_CONTENT,
                    "Content cannot be empty",
                    "Content too long (max 10,000 characters)")
       \o StringIssues(body.source, "source", MAX_SOURCE,
                       "Source cannot be empty",
                       "Source too long (max 255 characters)")

\* ------------------------------------------------------------------------
\* Errors thrown by the collaborators: a code and a message (as words)
\* ------------------------------------------------------------------------
Err(c, m) == [code |-> c, message |-> m]
NoErr == Err("", <<>>)
Includes(m, w) == \E i \in 1..Len(m) : m[i] = w

\* what each kind of failure throws
ErrOf(kind) ==
  CASE kind = "badJson" -> Err("", <<"Unexpected", "token", "in", "JSON">>)
    [] kind = "quota" -> Err("", <<"You", "exceeded", "your", "quota:", "insufficient_quota">>)
    [] kind = "auth" -> Err("", <<"Incorrect", "API", "key:", "invalid_api_key">>)
    [] kind = "network" -> Err("", <<"fetch", "failed">>)
    [] kind = "connRefused" -> Err("ECONNREFUSED", <<"connect", "ECONNREFUSED", "127.0.0.1:5432">>)
    [] kind = "noTable" -> Err("42P01", <<"relation", "content_chunks", "does", "not", "exist">>)
    [] kind = "dbOther" -> Err("57014", <<"canceling", "statement", "due", "to", "statement", "timeout">>)
    [] OTHER -> NoErr

ProviderFailures == {"quota", "auth", "network"}
StorageFailures == {"connRefused", "noTable", "dbOther"}

\* ------------------------------------------------------------------------
\* HTTP responses
\* ------------------------------------------------------------------------
NoDetails == <<>>
Response(who, st, e, d, t, i, n, c) ==
  [from |-> who, status |-> st, error |-> e, details |-> d, detailsText |-> t,
   id |-> i, totalEmbeddings |-> n, cause |-> c]
NoResp == Response("none", 0, "", NoDetails, <<>>, 0, -1, "")

\* PostCatch without the branch for insufficient_quota
PostCatchNoQuota(who, err, kind) ==
  IF err.code = "ECONNREFUSED"
  THEN Response(who, 500, "Database connection failed. Please ensure the database is running.",
                NoDetails, <<>>, 0, -1, kind)
  ELSE IF Includes(err.message, "invalid_api_key")
  THEN Response(who, 401, "Invalid OpenAI API key. Please check your configuration.",
                NoDetails, <<>>, 0, -1, kind)
  ELSE IF err.code = "42P01"
  THEN Response(who, 500, "Database table not found. Please run the database schema setup.",
                NoDetails, <<>>, 0, -1, kind)
  ELSE Response(who, 500, "Failed to embed content", NoDetails, err.message, 0, -1, kind)

\* the catch block of POST
PostCatch(who, err, kind) ==
  IF err.code = "ECONNREFUSED"
  THEN Response(who, 500, "Database connection failed. Please ensure the database is running.",
                NoDetails, <<>>, 0, -1, kind)
  ELSE IF Includes(err.message, "insufficient_quota")
  THEN Response(who, 429, "OpenAI API quota exceeded. Please check your billing and usage.",
                NoDetails, <<>>, 0, -1, kind)
  ELSE IF Includes(err.message, "invalid_api_key")
  THEN Response(who, 401, "Invalid OpenAI API key. Please check your configuration.",
                NoDetails, <<>>, 0, -1, kind)
  ELSE IF err.code = "42P01"
  THEN Response(who, 500, "Database table not found. Please run the database schema setup.",
                NoDetails, <<>>, 0, -1, kind)
  ELSE Response(who, 500, "Failed to embed content", NoDetails, err.message, 0, -1, kind)


\* ------------------------------------------------------------------------
\* The embedding provider (text-embedding-3-small) and pgvector
\* ------------------------------------------------------------------------
\* The provider is a function of the text: the same text gives the same
\* vector.  All vectors have squared norm 25.
EmbeddingOf(txt) ==
  CASE txt = "a" -> <<3, 4>>
    [] txt = "b" -> <<4, 3>>
    [] txt = "c" -> <<5, 0>>
    [] txt = "d" -> <<-3, 4>>
    [] OTHER -> <<0, 5>>

\* `[${embedding.join(',')}]`
VectorString(embedding) == [open |-> "[", items |-> embedding, close |-> "]"]
NoVectorString == [open |-> "", items |-> <<>>, close |-> ""]

\* pgvector's input function for the vector type
ParseVector(vs) == IF vs.open = "[" /\ vs.close = "]" THEN vs.items ELSE <<>>

Dot(u, v) == u[1] * v[1] + u[2] * v[2]

\* q <=> e1 is at most q <=> e2, where <=> is the cosine distance
\* 1 - u.v / (|u| |v|); the comparison is made on the squares.
DistLeq(q, e1, e2) ==
  LET d1 == Dot(q, e1)
      d2 == Dot(q, e2)
      n1 == Dot(e1, e1)
      n2 == Dot(e2, e2)
  IN  IF d1 >= 0 /\ d2 < 0 THEN TRUE
      ELSE IF d1 < 0 /\ d2 >= 0 THEN FALSE
      ELSE IF d1 >= 0 THEN d1 * d1 * n2 >= d2 * d2 * n1
      ELSE d1 * d1 * n2 <= d2 * d2 * n1

\* ------------------------------------------------------------------------
\* State
\* ------------------------------------------------------------------------
VARIABLES
  env,      \* process.env: which of DATABASE_URL, OPENAI_API_KEY are set
  store,    \* the rows of content_chunks, in insertion order
  nextId,   \* the next value of the bigserial sequence of content_chunks.id
  req,      \* the POST /api/embed requests: position, locals and response
  posts,    \* number of POST requests received
  probe,    \* the GET /api/embed request: position and response
  tool,     \* the vectorSearch tool call: position, locals and result
  cli,      \* the scripts/query.ts process: position, locals, output, exit
  ing,      \* the scripts/embed.ts process: position, locals and exit
  chat,     \* the POST /api/chat request: position, step count and response
  boot,     \* the Docker bootstrap process: position, what it saw, exit
  session,  \* the browser tab of the chat: sessionStorage and ChatProvider
  demo      \* the pipeline demo page: its state, renders and timers

vars == <<env, store, nextId, req, posts, probe, tool, cli, ing, chat, boot, session, demo>>

Reqs == {1, 2}

Row(i, c, e, s) == [id |-> i, content |-> c, embedding |-> e, source |-> s]

IdleReq ==
  [pc |-> "idle", body |-> NullBody, content |-> Undefined, source |-> Undefined,
   embedding |-> <<>>, vectorString |-> NoVectorString, response |-> NoResp]

IdleProbe == [pc |-> "idle", response |-> NoResp]

\* COUNT(*) is a bigint, which node-postgres hands over as decimal text
RECURSIVE CountText(_)
CountText(n) == IF n < 10 THEN <<n>> ELSE Append(CountText(n \div 10), n % 10)

RECURSIVE parseInt(_)
parseInt(s) ==
  IF Len(s) = 0 THEN 0
  ELSE 10 * parseInt(SubSeq(s, 1, Len(s) - 1)) + s[Len(s)]

\* ------------------------------------------------------------------------
\* POST /api/embed
\* ------------------------------------------------------------------------
\* PostStart calling embed() without the test of OPENAI_API_KEY
PostStartChecksKeyLate(r, body) ==
  /\ req[r].pc \in {"idle", "done"}
  /\ posts' = posts + 1
  /\ LET issues == embedRequestSchema(body)
         fresh == [IdleReq EXCEPT !.body = body]
         done(rsp) == [fresh EXCEPT !.pc = "done", !.response = rsp]
     IN  req' = [req EXCEPT ![r] =
           IF body.json = "invalid"
           THEN done(PostCatch("POST", ErrOf("badJson"), "badJson"))
           ELSE IF issues # <<>>
           THEN done(Response("POST", 400, "Validation failed", issues, <<>>, 0, -1, "validation"))
           ELSE IF ~env.DATABASE_URL
           THEN done(Response("POST", 500,
                  "Database not configured. Please set DATABASE_URL environment variable.",
                  NoDetails, <<>>, 0, -1, "noDatabaseUrl"))
           ELSE [fresh EXCEPT !.pc = "embedding", !.content = body.content,
                              !.source = body.source]]
  /\ UNCHANGED <<env, store, nextId, probe, tool, cli, ing, chat, boot, session, demo>>

\* req.json(), safeParse, the two environment checks; then embed() is called
PostStart(r, body) ==
  /\ req[r].pc \in {"idle", "done"}
  /\ posts' = posts + 1
  /\ LET issues == embedRequestSchema(body)
         fresh == [IdleReq EXCEPT !.body = body]
         done(rsp) == [fresh EXCEPT !.pc = "done", !.response = rsp]
     IN  req' = [req EXCEPT ![r] =
           IF body.json = "invalid"
           THEN done(PostCatch("POST", ErrOf("badJson"), "badJson"))
           ELSE IF issues # <<>>
           THEN done(Response("POST", 400, "Validation failed", issues, <<>>, 0, -1, "validation"))
           ELSE IF ~env.DATABASE_URL
           THEN done(Response("POST", 500,
                  "Database not configured. Please set DATABASE_URL environment variable.",
                  NoDetails, <<>>, 0, -1, "noDatabaseUrl"))
           ELSE IF ~env.OPENAI_API_KEY
           THEN done(Response("POST", 500,
                  "OpenAI API key not configured. Please set OPENAI_API_KEY environment variable.",
                  NoDetails, <<>>, 0, -1, "noApiKey"))
           ELSE [fresh EXCEPT !.pc = "embedding", !.content = body.content,
                              !.source = body.source]]
  /\ UNCHANGED <<env, store, nextId, probe, tool, cli, ing, chat, boot, session, demo>>

\* embed() resolves: the vector is formatted and the INSERT is sent
PostEmbedded(r) ==
  /\ req[r].pc = "embedding"
  /\ LET embedding == EmbeddingOf(req[r].content.txt)
     IN  req' = [req EXCEPT ![r].pc = "inserting",
                            ![r].embedding = embedding,
                            ![r].vectorString = VectorString(embedding)]
  /\ UNCHANGED <<env, store, nextId, posts, probe, tool, cli, ing, chat, boot, session, demo>>

\* embed() rejects
PostEmbedFailed(r, kind) ==
  /\ req[r].pc = "embedding"
  /\ req' = [req EXCEPT ![r].pc = "done",
                        ![r].response = PostCatch("POST", ErrOf(kind), kind)]
  /\ UNCHANGED <<env, store, nextId, posts, probe, tool, cli, ing, chat, boot, session, demo>>

\* PostInserted with the columns of the INSERT in the wrong order
PostInsertedSwapped(r) ==
  /\ req[r].pc = "inserting"
  /\ store' = Append(store, Row(nextId, req[r].source,
                                ParseVector(req[r].vectorString), req[r].content))
  /\ nextId' = nextId + 1
  /\ req' = [req EXCEPT ![r].pc = "done",
                        ![r].response =
                          Response("POST", 200, "", NoDetails, <<>>, nextId, -1, "")]
  /\ UNCHANGED <<env, posts, probe, tool, cli, ing, chat, boot, session, demo>>

\* PostInserted with an id that is not drawn from the sequence: the
\* sequence stays where it was
PostInsertedKeepsSequence(r) ==
  /\ req[r].pc = "inserting"
  /\ store' = Append(store, Row(nextId, req[r].content,
                                ParseVector(req[r].vectorString), req[r].source))
  /\ nextId' = nextId
  /\ req' = [req EXCEPT ![r].pc = "done",
                        ![r].response =
                          Response("POST", 200, "", NoDetails, <<>>, nextId, -1, "")]
  /\ UNCHANGED <<env, posts, probe, tool, cli, ing, chat, boot, session, demo>>

\* PostInserted taking the content from a place that all requests share and
\* that the first request slot wrote last
PostInsertedSharedContent(r) ==
  /\ req[r].pc = "inserting"
  /\ store' = Append(store, Row(nextId, req[1].content,
                                ParseVector(req[r].vectorString), req[r].source))
  /\ nextId' = nextId + 1
  /\ req' = [req EXCEPT ![r].pc = "done",
                        ![r].response =
                          Response("POST", 200, "", NoDetails, <<>>, nextId, -1, "")]
  /\ UNCHANGED <<env, posts, probe, tool, cli, ing, chat, boot, session, demo>>

\* INSERT ... RETURNING id succeeds
PostInserted(r) ==
  /\ req[r].pc = "inserting"
  /\ store' = Append(store, Row(nextId, req[r].content,
                                ParseVector(req[r].vectorString), req[r].source))
  /\ nextId' = nextId + 1
  /\ req' = [req EXCEPT ![r].pc = "done",
                        ![r].response =
                          Response("POST", 200, "", NoDetails, <<>>, nextId, -1, "")]
  /\ UNCHANGED <<env, posts, probe, tool, cli, ing, chat, boot, session, demo>>

\* PostInsertFailed with the row of the failed statement left in the table
PostInsertFailedKeepsRow(r, kind) ==
  /\ req[r].pc = "inserting"
  /\ req' = [req EXCEPT ![r].pc = "done",
                        ![r].response = PostCatch("POST", ErrOf(kind), kind)]
  /\ store' = Append(store, Row(nextId, req[r].content,
                                ParseVector(req[r].vectorString), req[r].source))
  /\ nextId' = nextId + 1
  /\ UNCHANGED <<env, posts, probe, tool, cli, ing, chat, boot, session, demo>>

\* pool.query rejects; a statement that fails after its row was formed has
\* already drawn its id from the sequence
PostInsertFailed(r, kind) ==
  /\ req[r].pc = "inserting"
  /\ req' = [req EXCEPT ![r].pc = "done",
                        ![r].response = PostCatch("POST", ErrOf(kind), kind)]
  /\ \/ nextId' = nextId
     \/ kind = "dbOther" /\ nextId' = nextId + 1
  /\ UNCHANGED <<env, store, posts, probe, tool, cli, ing, chat, boot, session, demo>>

\* ------------------------------------------------------------------------
\* GET /api/embed
\* ------------------------------------------------------------------------
\* GetCount reading the highest id given out instead of counting the rows
GetCountMaxId ==
  /\ probe' = [pc |-> "done",
               response |-> Response("GET", 200, "", NoDetails, <<>>, 0,
                                     parseInt(CountText(nextId - 1)), "")]
  /\ UNCHANGED <<env, store, nextId, req, posts, tool, cli, ing, chat, boot, session, demo>>

GetCount ==
  /\ probe' = [pc |-> "done",
               response |-> Response("GET", 200, "", NoDetails, <<>>, 0,
                                     parseInt(CountText(Len(store))), "")]
  /\ UNCHANGED <<env, store, nextId, req, posts, tool, cli, ing, chat, boot, session, demo>>

GetFailed(kind) ==
  /\ probe' = [pc |-> "done",
               response |-> Response("GET", 500, "Database connection failed",
                                     NoDetails, <<>>, 0, -1, kind)]
  /\ UNCHANGED <<env, store, nextId, req, posts, tool, cli, ing, chat, boot, session, demo>>


\* ------------------------------------------------------------------------
\* SELECT ... FROM content_chunks ORDER BY embedding <=> $1 LIMIT n
\* ------------------------------------------------------------------------
\* OrderByDistanceLimit sorting by descending distance
RECURSIVE OrderByDistanceLimitDesc(_, _, _, _)
OrderByDistanceLimitDesc(rows, rem, q, n) ==
  IF n = 0 \/ rem = {} THEN {<<>>}
  ELSE UNION {
         {<<i>> \o s : s \in OrderByDistanceLimitDesc(rows, rem \ {i}, q, n - 1)} :
         i \in {i \in rem :
                  \A j \in rem : DistLeq(q, rows[j].embedding, rows[i].embedding)}}

\* The row positions the statement may return, in order.  Rows at the same
\* distance come in any order: the statement names no second sort key.
RECURSIVE OrderByDistanceLimit(_, _, _, _)
OrderByDistanceLimit(rows, rem, q, n) ==
  IF n = 0 \/ rem = {} THEN {<<>>}
  ELSE UNION {
         {<<i>> \o s : s \in OrderByDistanceLimit(rows, rem \ {i}, q, n - 1)} :
         i \in {i \in rem :
                  \A j \in rem : DistLeq(q, rows[i].embedding, rows[j].embedding)}}

\* ------------------------------------------------------------------------
\* vectorSearchTool.execute
\* ------------------------------------------------------------------------
QueryTexts == {"a", "b", "c"}

\* known and ids are history: the ids of the rows whose addContent had
\* answered with success when the tool was called, and the ids of the rows
\* the statement returned (the results themselves carry no id)
IdleTool ==
  [pc |-> "idle", query |-> "", qVec |-> <<>>, qVecString |-> NoVectorString,
   results |-> <<>>, error |-> "", known |-> {}, ids |-> <<>>]

\* the locals of a fresh call of execute({ query }); known is history: the
\* ids addContent has answered with before the call
ToolInvoked(query) ==
  [IdleTool EXCEPT
     !.pc = "embedding", !.query = query,
     !.known = {req[r].response.id :
                  r \in {x \in Reqs : req[x].pc = "done"
                                       /\ req[x].response.status = 200}}]

\* the orchestrator calls the tool with a query of its choosing
ToolCall(query) ==
  /\ tool.pc \in {"idle", "returned", "threw"}
  /\ tool' = ToolInvoked(query)
  /\ UNCHANGED <<env, store, nextId, req, posts, probe, cli, ing, chat, boot, session, demo>>

\* ToolEmbedded with a model other than the one the rows were embedded with
ToolEmbeddedOtherModel ==
  /\ tool.pc = "embedding"
  /\ LET v == EmbeddingOf(tool.query)
         qVec == <<v[2], v[1]>>
     IN  tool' = [tool EXCEPT !.pc = "querying", !.qVec = qVec,
                              !.qVecString = VectorString(qVec)]
  /\ UNCHANGED <<env, store, nextId, req, posts, probe, cli, ing, chat, boot, session, demo>>

ToolEmbedded ==
  /\ tool.pc = "embedding"
  /\ LET qVec == EmbeddingOf(tool.query)
     IN  tool' = [tool EXCEPT !.pc = "querying", !.qVec = qVec,
                              !.qVecString = VectorString(qVec)]
  /\ UNCHANGED <<env, store, nextId, req, posts, probe, cli, ing, chat, boot, session, demo>>

\* embed() or db.query() rejects: execute has no catch, the call throws
ToolFailed(kind) ==
  /\ \/ tool.pc = "embedding" /\ kind \in ProviderFailures
     \/ tool.pc = "querying" /\ kind \in StorageFailures
  /\ tool' = [tool EXCEPT !.pc = "threw", !.error = kind]
  /\ UNCHANGED <<env, store, nextId, req, posts, probe, cli, ing, chat, boot, session, demo>>

\* ToolQueried with rank: i instead of rank: i + 1
ToolQueriedZeroBased ==
  /\ tool.pc = "querying"
  /\ \E sel \in OrderByDistanceLimit(store, DOMAIN store,
                                     ParseVector(tool.qVecString), TOP_N) :
       tool' = [tool EXCEPT
                  !.pc = "returned",
                  !.results = [i \in 1..Len(sel) |->
                                 [content |-> store[sel[i]].content,
                                  source |-> store[sel[i]].source,
                                  rank |-> i - 1]],
                  !.ids = [i \in 1..Len(sel) |-> store[sel[i]].id]]
  /\ UNCHANGED <<env, store, nextId, req, posts, probe, cli, ing, chat, boot, session, demo>>

\* ToolQueried reading rows[0] of an empty result
ToolQueriedThrowsOnEmpty ==
  /\ tool.pc = "querying"
  /\ \E sel \in OrderByDistanceLimit(store, DOMAIN store,
                                     ParseVector(tool.qVecString), TOP_N) :
       tool' = IF sel = <<>>
               THEN [tool EXCEPT !.pc = "threw"]
               ELSE [tool EXCEPT
                       !.pc = "returned",
                       !.results = [i \in 1..Len(sel) |->
                                      [content |-> store[sel[i]].content,
                                       source |-> store[sel[i]].source,
                                       rank |-> i]],
                       !.ids = [i \in 1..Len(sel) |-> store[sel[i]].id]]
  /\ UNCHANGED <<env, store, nextId, req, posts, probe, cli, ing, chat, boot, session, demo>>

\* rows.map((r, i) => ({content, source, rank: i + 1}))
ToolQueried ==
  /\ tool.pc = "querying"
  /\ \E sel \in OrderByDistanceLimit(store, DOMAIN store,
                                     ParseVector(tool.qVecString), TOP_N) :
       tool' = [tool EXCEPT
                  !.pc = "returned",
                  !.results = [i \in 1..Len(sel) |->
                                 [content |-> store[sel[i]].content,
                                  source |-> store[sel[i]].source,
                                  rank |-> i]],
                  !.ids = [i \in 1..Len(sel) |-> store[sel[i]].id]]
  /\ UNCHANGED <<env, store, nextId, req, posts, probe, cli, ing, chat, boot, session, demo>>

\* ------------------------------------------------------------------------
\* scripts/query.ts
\* ------------------------------------------------------------------------
DefaultQuery == "How can I change my billing information?"
NoArg == ""

IdleCli ==
  [pc |-> "idle", query |-> "", qVec |-> <<>>, qVecString |-> NoVectorString,
   printed |-> <<>>, error |-> "", exitCode |-> -1]

\* 1 - (embedding <=> $1), in units of 1/10000; the norms are whole numbers
Norm(v) == CHOOSE n \in 0..Dot(v, v) : n * n = Dot(v, v)
Score(q, e) == (Dot(q, e) * 10000) \div (Norm(q) * Norm(e))

\* the process starts: process.argv[2] || default
CliStart(arg) ==
  /\ cli.pc \in {"idle", "exited"}
  /\ cli' = [IdleCli EXCEPT !.pc = "embedding",
                            !.query = IF arg # NoArg THEN arg ELSE DefaultQuery]
  /\ UNCHANGED <<env, store, nextId, req, posts, probe, tool, ing, chat, boot, session, demo>>

CliEmbedded ==
  /\ cli.pc = "embedding"
  /\ LET qVec == EmbeddingOf(cli.query)
     IN  cli' = [cli EXCEPT !.pc = "querying", !.qVec = qVec,
                            !.qVecString = VectorString(qVec)]
  /\ UNCHANGED <<env, store, nextId, req, posts, probe, tool, ing, chat, boot, session, demo>>

\* embed() or pool.query() rejects: the catch of the entry point exits 1
CliFailed(kind) ==
  /\ \/ cli.pc = "embedding" /\ kind \in ProviderFailures
     \/ cli.pc = "querying" /\ kind \in StorageFailures
  /\ cli' = [cli EXCEPT !.pc = "exited", !.error = kind, !.exitCode = 1]
  /\ UNCHANGED <<env, store, nextId, req, posts, probe, tool, ing, chat, boot, session, demo>>

\* CliQueried with the statement ordered by descending distance
CliQueriedFarthestFirst ==
  /\ cli.pc = "querying"
  /\ \E sel \in OrderByDistanceLimitDesc(store, DOMAIN store,
                                     ParseVector(cli.qVecString), TOP_N) :
       cli' = [cli EXCEPT
                 !.pc = "exited",
                 !.exitCode = 0,
                 !.printed = [i \in 1..Len(sel) |->
                                [content |-> store[sel[i]].content,
                                 source |-> store[sel[i]].source,
                                 score |-> Score(ParseVector(cli.qVecString),
                                                 store[sel[i]].embedding),
                                 rank |-> i]]]
  /\ UNCHANGED <<env, store, nextId, req, posts, probe, tool, ing, chat, boot, session, demo>>

\* the rows are printed with rank i + 1 and the process ends normally,
\* also when there is no row
CliQueried ==
  /\ cli.pc = "querying"
  /\ \E sel \in OrderByDistanceLimit(store, DOMAIN store,
                                     ParseVector(cli.qVecString), TOP_N) :
       cli' = [cli EXCEPT
                 !.pc = "exited",
                 !.exitCode = 0,
                 !.printed = [i \in 1..Len(sel) |->
                                [content |-> store[sel[i]].content,
                                 source |-> store[sel[i]].source,
                                 score |-> Score(ParseVector(cli.qVecString),
                                                 store[sel[i]].embedding),
                                 rank |-> i]]]
  /\ UNCHANGED <<env, store, nextId, req, posts, probe, tool, ing, chat, boot, session, demo>>


\* ------------------------------------------------------------------------
\* scripts/embed.ts
\* ------------------------------------------------------------------------
\* The input file is the sequence of its segments between blank lines.  A
\* segment is ws characters of surrounding white space and a sequence of
\* words: runs of len characters that are not white space, each but the
\* first preceded by one separator character, a line feed or a space.
Word(s, n) == [sep |-> s, len |-> n]
Segment(t, w, n) == [txt |-> t, words |-> w, ws |-> n]
Unreadable == <<Segment("ENOENT", <<>>, 0)>>
FileName == Str("data.txt", 8)

Min(a, b) == IF a < b THEN a ELSE b

\* offset of the first character of word i in the trimmed segment
RECURSIVE WordStart(_, _)
WordStart(words, i) ==
  IF i = 1 THEN 0 ELSE WordStart(words, i - 1) + words[i - 1].len + 1

\* l.trim().length
TrimmedLength(words) ==
  IF words = <<>> THEN 0
  ELSE WordStart(words, Len(words)) + words[Len(words)].len

\* Lines without filter(Boolean)
LinesUnfiltered(raw) ==
  LET trimmed == [k \in 1..Len(raw) |->
                    [type |-> "string", txt |-> raw[k].txt,
                     len |-> TrimmedLength(raw[k].words), words |-> raw[k].words]]
      nonEmpty(l) == l.len > 0
  IN  trimmed

\* raw.split(/\r?\n\s*\r?\n/).map((l) => l.trim()).filter(Boolean)
Lines(raw) ==
  LET trimmed == [k \in 1..Len(raw) |->
                    [type |-> "string", txt |-> raw[k].txt,
                     len |-> TrimmedLength(raw[k].words), words |-> raw[k].words]]
      nonEmpty(l) == l.len > 0
  IN  SelectSeq(trimmed, nonEmpty)

\* ---- RecursiveCharacterTextSplitter({chunkSize: 512, chunkOverlap: 50}) ----
\* A piece of a line is the interval [from, to) of its character offsets.
Interval(a, b) == [from |-> a, to |-> b]

\* the separators of the splitter, tried in this order
Separators == <<"\n\n", "\n", " ", "">>

\* offsets of the separator characters s of a line; no line holds "\n\n"
SepPositions(words, s) ==
  {WordStart(words, i) - 1 : i \in {k \in 2..Len(words) : words[k].sep = s}}

IsSpace(words, p) == \E i \in 2..Len(words) : WordStart(words, i) - 1 = p

\* docs.join(separator).trim(), null for the empty text; the separator is ""
\* because the splitter keeps the separators inside the pieces
joinDocs(words, a, b) ==
  LET a1 == IF a < b /\ IsSpace(words, a) THEN a + 1 ELSE a
      b1 == IF a1 < b /\ IsSpace(words, b - 1) THEN b - 1 ELSE b
  IN  IF a1 = b1 THEN <<>> ELSE <<Interval(a1, b1)>>

\* the while loop of mergeSplits: currentDoc.shift() while more than the
\* overlap is kept or the next piece would still not fit; the result is the
\* first piece that stays
Shift(cuts, lo, k, len) ==
  LET total(l) == cuts[k] - cuts[l]
      shifts(l) == total(l) > CHUNK_OVERLAP
                   \/ (total(l) + len > MAX_CHUNK_LENGTH /\ total(l) > 0)
  IN  CHOOSE l \in lo..k : ~shifts(l) /\ (l = lo \/ shifts(l - 1))

\* mergeSplits over the pieces [cuts[k], cuts[k+1]), with currentDoc
\* starting at piece lo: pieces are pushed up to the first piece k that no
\* longer fits; then the document is emitted and currentDoc is shifted
RECURSIVE mergeSplits(_, _, _)
mergeSplits(words, cuts, lo) ==
  LET n == Len(cuts) - 1
      over(k) == cuts[k + 1] - cuts[lo] > MAX_CHUNK_LENGTH
  IN  IF lo >= n \/ ~over(n) THEN joinDocs(words, cuts[lo], cuts[n + 1])
      ELSE LET k == CHOOSE x \in (lo + 1)..n :
                      over(x) /\ (x = lo + 1 \/ ~over(x - 1))
           IN  joinDocs(words, cuts[lo], cuts[k])
               \o mergeSplits(words, cuts, Shift(cuts, lo, k, cuts[k + 1] - cuts[k]))

RECURSIVE Ascending(_)
Ascending(S) ==
  IF S = {} THEN <<>>
  ELSE LET m == CHOOSE x \in S : \A y \in S : x <= y
       IN  <<m>> \o Ascending(S \ {m})

\* splitOnSeparator: the text is cut in front of every separator it holds,
\* or into its characters for the separator ""; the result is the sequence
\* of the cut points, from and to included
splitOnSeparator(words, from, to, s) ==
  IF s = "" THEN [k \in 1..(to - from + 1) |-> from + k - 1]
  ELSE <<from>> \o Ascending({p \in SepPositions(words, s) : from < p /\ p < to})
       \o <<to>>

\* the first separator from index i on that the text includes, "" at last
RECURSIVE PickSeparator(_, _, _, _)
PickSeparator(words, from, to, i) ==
  IF \/ Separators[i] = ""
     \/ \E p \in SepPositions(words, Separators[i]) : from <= p /\ p < to
  THEN i
  ELSE PickSeparator(words, from, to, i + 1)

\* _splitText and its loop over the splits: the pieces g..k-1 in front of
\* the next piece k that is not shorter than chunkSize are merged, piece k
\* is split with the separators that follow, and the loop goes on behind it
RECURSIVE SplitTextWith(_, _, _, _)
RECURSIVE SplitLoop(_, _, _, _)
SplitTextWith(words, from, to, first) ==
  LET i == PickSeparator(words, from, to, first)
  IN  SplitLoop(words, splitOnSeparator(words, from, to, Separators[i]), i, 1)

SplitLoop(words, cuts, i, g) ==
  LET n == Len(cuts) - 1
      long == {x \in g..n : cuts[x + 1] - cuts[x] >= MAX_CHUNK_LENGTH}
      k == IF long = {} THEN n + 1
           ELSE CHOOSE x \in long : \A y \in long : x <= y
      merged == IF g < k THEN mergeSplits(words, SubSeq(cuts, g, k), 1) ELSE <<>>
  IN  IF k = n + 1 THEN merged
      ELSE merged
           \o (IF Separators[i] = "" THEN <<Interval(cuts[k], cuts[k + 1])>>
               ELSE SplitTextWith(words, cuts[k], cuts[k + 1], i + 1))
           \o SplitLoop(words, cuts, i, k + 1)

\* splitText handing the line back in one piece
splitTextWhole(line) == <<Interval(0, line.len)>>

\* overflowSplitter.splitText(line): the pieces of the line
splitText(line) == SplitTextWith(line.words, 0, line.len, 1)

\* a chunk is a string; line and from tell where in the file its len
\* characters come from (line 0: the chunk is the whole line)
Chunk(l, k, from, n) ==
  [type |-> "string", txt |-> l.txt, len |-> n, line |-> k, from |-> from]

\* the loop that builds chunks from lines
RECURSIVE ChunksFrom(_, _)
ChunksFrom(lines, k) ==
  IF k > Len(lines) THEN <<>>
  ELSE (IF lines[k].len <= MAX_CHUNK_LENGTH
        THEN <<Chunk(lines[k], 0, 0, lines[k].len)>>
        ELSE LET sub == splitText(lines[k])
             IN  [n \in 1..Len(sub) |->
                    Chunk(lines[k], k, sub[n].from, sub[n].to - sub[n].from)])
       \o ChunksFrom(lines, k + 1)

Chunks(lines) == ChunksFrom(lines, 1)

\* chunks.slice(i, i + BATCH_SIZE + 1)
SliceOneMore(chunks, i) == SubSeq(chunks, i + 1, Min(i + BATCH_SIZE + 1, Len(chunks)))

\* chunks.slice(i, i + BATCH_SIZE)
Slice(chunks, i) == SubSeq(chunks, i + 1, Min(i + BATCH_SIZE, Len(chunks)))

IdleIng ==
  [pc |-> "idle", chunks |-> <<>>, i |-> 0, j |-> 0, batch |-> <<>>,
   embeddings |-> <<>>, calls |-> 0, error |-> "", exitCode |-> -1]

\* IngestStart emptying the table before the run
IngestStartTruncates(raw) ==
  /\ ing.pc = "idle"
  /\ ing' = IF raw = Unreadable
            THEN [ing EXCEPT !.pc = "exited", !.exitCode = 1, !.error = "ENOENT"]
            ELSE LET chunks == Chunks(Lines(raw))
                 IN  IF 0 < Len(chunks)
                     THEN [ing EXCEPT !.pc = "embedding", !.chunks = chunks,
                                      !.batch = Slice(chunks, 0)]
                     ELSE [ing EXCEPT !.pc = "exited", !.exitCode = 0]
  /\ store' = <<>>
  /\ UNCHANGED <<env, nextId, req, posts, probe, tool, cli, chat, boot, session, demo>>

\* IngestStart where the failure to read the file is logged and the process
\* ends normally
IngestStartSwallows(raw) ==
  /\ ing.pc = "idle"
  /\ ing' = IF raw = Unreadable
            THEN [ing EXCEPT !.pc = "exited", !.exitCode = 0, !.error = "ENOENT"]
            ELSE LET chunks == Chunks(Lines(raw))
                 IN  IF 0 < Len(chunks)
                     THEN [ing EXCEPT !.pc = "embedding", !.chunks = chunks,
                                      !.batch = Slice(chunks, 0)]
                     ELSE [ing EXCEPT !.pc = "exited", !.exitCode = 0]
  /\ UNCHANGED <<env, store, nextId, req, posts, probe, tool, cli, chat, boot, session, demo>>

\* main() calls ingest(): the file is read and chunked and the first batch,
\* if there is one, goes to embedMany; a file that cannot be read throws
IngestStart(raw) ==
  /\ ing.pc = "idle"
  /\ ing' = IF raw = Unreadable
            THEN [ing EXCEPT !.pc = "exited", !.exitCode = 1, !.error = "ENOENT"]
            ELSE LET chunks == Chunks(Lines(raw))
                 IN  IF 0 < Len(chunks)
                     THEN [ing EXCEPT !.pc = "embedding", !.chunks = chunks,
                                      !.batch = Slice(chunks, 0)]
                     ELSE [ing EXCEPT !.pc = "exited", !.exitCode = 0]
  /\ UNCHANGED <<env, store, nextId, req, posts, probe, tool, cli, chat, boot, session, demo>>

\* embedMany resolves with one vector per value, in the order of the values
IngestEmbedded ==
  /\ ing.pc = "embedding"
  /\ ing' = [ing EXCEPT
               !.pc = "inserting",
               !.embeddings = [k \in 1..Len(ing.batch) |-> EmbeddingOf(ing.batch[k].txt)],
               !.calls = ing.calls + 1,
               !.j = 0]
  /\ UNCHANGED <<env, store, nextId, req, posts, probe, tool, cli, chat, boot, session, demo>>

\* IngestFailed where a batch whose embedding call failed is skipped and
\* the loop goes on with the next batch
IngestFailedContinues(kind) ==
  /\ \/ ing.pc = "embedding" /\ kind \in ProviderFailures
     \/ ing.pc = "inserting" /\ kind \in StorageFailures
  /\ ing' = IF ing.pc = "embedding" /\ ing.i + BATCH_SIZE < Len(ing.chunks)
            THEN [ing EXCEPT !.pc = "pausing", !.error = kind,
                             !.calls = ing.calls + 1]
            ELSE [ing EXCEPT !.pc = "exited", !.exitCode = 1, !.error = kind,
                             !.calls = IF ing.pc = "embedding" THEN ing.calls + 1
                                       ELSE ing.calls]
  /\ UNCHANGED <<env, store, nextId, req, posts, probe, tool, cli, chat, boot, session, demo>>

\* embedMany or pool.query rejects: main's catch ends the pool and exits 1
IngestFailed(kind) ==
  /\ \/ ing.pc = "embedding" /\ kind \in ProviderFailures
     \/ ing.pc = "inserting" /\ kind \in StorageFailures
  /\ ing' = [ing EXCEPT !.pc = "exited", !.exitCode = 1, !.error = kind,
                        !.calls = IF ing.pc = "embedding" THEN ing.calls + 1
                                  ELSE ing.calls]
  /\ UNCHANGED <<env, store, nextId, req, posts, probe, tool, cli, chat, boot, session, demo>>

\* IngestInserted pairing the chunk at position j with the vector at the
\* mirrored position of the batch
IngestInsertedMisaligned ==
  /\ ing.pc = "inserting"
  /\ LET chunk == ing.batch[ing.j + 1]
         embedding == ing.embeddings[Len(ing.batch) - ing.j]
         batchNumber == (ing.i \div BATCH_SIZE) + 1
         totalBatches == (Len(ing.chunks) + BATCH_SIZE - 1) \div BATCH_SIZE
     IN  /\ store' = Append(store, Row(nextId, Str(chunk.txt, chunk.len),
                                       ParseVector(VectorString(embedding)), FileName))
         /\ nextId' = nextId + 1
         /\ ing' = IF ing.j + 1 < Len(ing.batch)
                   THEN [ing EXCEPT !.j = ing.j + 1]
                   ELSE IF batchNumber < totalBatches
                   THEN [ing EXCEPT !.j = ing.j + 1, !.pc = "pausing"]
                   ELSE [ing EXCEPT !.j = ing.j + 1, !.i = ing.i + BATCH_SIZE,
                                    !.pc = "exited", !.exitCode = 0]
  /\ UNCHANGED <<env, req, posts, probe, tool, cli, chat, boot, session, demo>>

\* IngestInserted walking through the batch from its last chunk to its first
IngestInsertedLastFirst ==
  /\ ing.pc = "inserting"
  /\ LET chunk == ing.batch[Len(ing.batch) - ing.j]
         embedding == ing.embeddings[Len(ing.batch) - ing.j]
         batchNumber == (ing.i \div BATCH_SIZE) + 1
         totalBatches == (Len(ing.chunks) + BATCH_SIZE - 1) \div BATCH_SIZE
     IN  /\ store' = Append(store, Row(nextId, Str(chunk.txt, chunk.len),
                                       ParseVector(VectorString(embedding)), FileName))
         /\ nextId' = nextId + 1
         /\ ing' = IF ing.j + 1 < Len(ing.batch)
                   THEN [ing EXCEPT !.j = ing.j + 1]
                   ELSE IF batchNumber < totalBatches
                   THEN [ing EXCEPT !.j = ing.j + 1, !.pc = "pausing"]
                   ELSE [ing EXCEPT !.j = ing.j + 1, !.i = ing.i + BATCH_SIZE,
                                    !.pc = "exited", !.exitCode = 0]
  /\ UNCHANGED <<env, req, posts, probe, tool, cli, chat, boot, session, demo>>

\* one INSERT of the inner loop; after the last row of a batch the run
\* pauses if more batches follow and ends otherwise
IngestInserted ==
  /\ ing.pc = "inserting"
  /\ LET chunk == ing.batch[ing.j + 1]
         embedding == ing.embeddings[ing.j + 1]
         batchNumber == (ing.i \div BATCH_SIZE) + 1
         totalBatches == (Len(ing.chunks) + BATCH_SIZE - 1) \div BATCH_SIZE
     IN  /\ store' = Append(store, Row(nextId, Str(chunk.txt, chunk.len),
                                       ParseVector(VectorString(embedding)), FileName))
         /\ nextId' = nextId + 1
         /\ ing' = IF ing.j + 1 < Len(ing.batch)
                   THEN [ing EXCEPT !.j = ing.j + 1]
                   ELSE IF batchNumber < totalBatches
                   THEN [ing EXCEPT !.j = ing.j + 1, !.pc = "pausing"]
                   ELSE [ing EXCEPT !.j = ing.j + 1, !.i = ing.i + BATCH_SIZE,
                                    !.pc = "exited", !.exitCode = 0]
  /\ UNCHANGED <<env, req, posts, probe, tool, cli, chat, boot, session, demo>>

\* the 100 ms pause is over: i += BATCH_SIZE and the next batch is embedded
IngestPaused ==
  /\ ing.pc = "pausing"
  /\ ing' = [ing EXCEPT !.pc = "embedding", !.i = ing.i + BATCH_SIZE,
                        !.batch = Slice(ing.chunks, ing.i + BATCH_SIZE)]
  /\ UNCHANGED <<env, store, nextId, req, posts, probe, tool, cli, chat, boot, session, demo>>

\* ------------------------------------------------------------------------
\* POST /api/chat
\* ------------------------------------------------------------------------

MAX_STEPS == 5

\* what req.json() makes of the body, and the messages property of the value
ChatBody(j, m) == [json |-> j, messages |-> m]

\* request bodies: not JSON, the JSON null, an object without messages, an
\* object whose messages is an array
ChatBodies ==
  {ChatBody("invalid", "undefined"), ChatBody("null", "undefined"),
   ChatBody("object", "undefined"), ChatBody("object", "array")}

IdleChat ==
  [pc |-> "idle", steps |-> 0, status |-> 0, text |-> "", answered |-> FALSE,
   cause |-> ""]

\* the handler up to its return: req.json() and the destructuring run before
\* the try block, the spread of messages and streamText run inside it
ChatStart(body) ==
  /\ chat.pc \in {"idle", "finished", "responded", "uncaught"}
  /\ chat' = IF body.json = "invalid"
             THEN [IdleChat EXCEPT !.pc = "uncaught", !.cause = "badJson"]
             ELSE IF body.json = "null"
             THEN [IdleChat EXCEPT !.pc = "uncaught", !.cause = "typeError"]
             ELSE IF body.messages # "array"
             THEN [IdleChat EXCEPT !.pc = "responded", !.status = 500,
                                   !.text = "Internal Server Error",
                                   !.cause = "typeError"]
             ELSE [IdleChat EXCEPT !.pc = "generating", !.status = 200,
                                   !.steps = 1]
  /\ UNCHANGED <<env, store, nextId, req, posts, probe, tool, cli, ing, boot, session, demo>>

\* a step of the model ends with text and no tool call: the stream ends
ChatAnswered ==
  /\ chat.pc = "generating"
  /\ chat' = [chat EXCEPT !.pc = "finished", !.answered = TRUE]
  /\ UNCHANGED <<env, store, nextId, req, posts, probe, tool, cli, ing, boot, session, demo>>

\* the provider fails during a step: the failure is written to the stream
ChatModelFailed(kind) ==
  /\ chat.pc = "generating"
  /\ kind \in ProviderFailures
  /\ chat' = [chat EXCEPT !.pc = "finished", !.cause = kind]
  /\ UNCHANGED <<env, store, nextId, req, posts, probe, tool, cli, ing, boot, session, demo>>

\* a step of the model ends with a call of vectorSearch
ChatCallsTool(query) ==
  /\ chat.pc = "generating"
  /\ tool.pc \in {"idle", "returned", "threw"}
  /\ chat' = [chat EXCEPT !.pc = "tool"]
  /\ tool' = ToolInvoked(query)
  /\ UNCHANGED <<env, store, nextId, req, posts, probe, cli, ing, boot, session, demo>>

\* the tool call is over: with a result the model takes another step while
\* fewer than maxSteps were taken; a tool that threw ends the stream
ChatToolDone ==
  /\ chat.pc = "tool"
  /\ tool.pc \in {"returned", "threw"}
  /\ chat' = IF tool.pc = "threw"
             THEN [chat EXCEPT !.pc = "finished", !.cause = tool.error]
             ELSE IF chat.steps < MAX_STEPS
             THEN [chat EXCEPT !.pc = "generating", !.steps = chat.steps + 1]
             ELSE [chat EXCEPT !.pc = "finished"]
  /\ UNCHANGED <<env, store, nextId, req, posts, probe, tool, cli, ing, boot, session, demo>>

\* ------------------------------------------------------------------------
\* The Docker bootstrap script (ensureDockerServices)
\* ------------------------------------------------------------------------
MAX_WAIT_TIME == 30000
CHECK_INTERVAL == 1000

\* What the checks of one run find on the host: docker --version works;
\* which compose command works ("plugin": docker compose, "standalone":
\* docker-compose, "none"); docker ps lists the container; a process
\* listens on port 5432; docker-compose.yml is in the current directory.
Hosts ==
  [docker : BOOLEAN, compose : {"plugin", "standalone", "none"},
   running : BOOLEAN, portInUse : BOOLEAN, fileExists : BOOLEAN]

IdleBoot ==
  [pc |-> "idle", host |-> [docker |-> FALSE, compose |-> "none",
                            running |-> FALSE, portInUse |-> FALSE,
                            fileExists |-> FALSE],
   composeCmd |-> "", closeCode |-> 0, attempts |-> 0, elapsed |-> 0,
   error |-> "", exitCode |-> 0]

\* the catch block: the message is printed and the process exits with 1
BootCatch(b, message) ==
  [b EXCEPT !.pc = "exited", !.error = message, !.exitCode = 1]

isDockerInstalled(h) == h.docker

isDockerComposeAvailable(h) == h.compose # "none"

isContainerRunning(h) == h.docker /\ h.running

isPortInUse(h) == h.portInUse

getDockerComposeCommand(h) ==
  IF h.compose = "plugin" THEN "docker compose" ELSE "docker-compose"

BootStart(h) ==
  /\ boot.pc = "idle"
  /\ boot' = [boot EXCEPT !.pc = "started", !.host = h]
  /\ UNCHANGED <<env, store, nextId, req, posts, probe, tool, cli, ing, chat, session, demo>>

\* BootChecks without the test of the running container
BootChecksAlwaysStarts ==
  /\ boot.pc = "started"
  /\ boot' =
       IF ~isDockerInstalled(boot.host)
         THEN BootCatch(boot, "Docker is not installed")
       ELSE IF ~isDockerComposeAvailable(boot.host)
         THEN BootCatch(boot, "Docker Compose is not available")
       ELSE IF isPortInUse(boot.host)
         THEN BootCatch(boot, "Port 5432 is already in use")
       ELSE IF ~boot.host.fileExists
         THEN BootCatch(boot, "docker-compose.yml not found")
       ELSE [boot EXCEPT !.pc = "composing",
                         !.composeCmd = getDockerComposeCommand(boot.host)]
  /\ UNCHANGED <<env, store, nextId, req, posts, probe, tool, cli, ing, chat, session, demo>>

\* the synchronous checks up to the spawn of compose up -d
BootChecks ==
  /\ boot.pc = "started"
  /\ boot' =
       IF ~isDockerInstalled(boot.host)
         THEN BootCatch(boot, "Docker is not installed")
       ELSE IF ~isDockerComposeAvailable(boot.host)
         THEN BootCatch(boot, "Docker Compose is not available")
       ELSE IF isContainerRunning(boot.host)
         THEN [boot EXCEPT !.pc = "returned"]
       ELSE IF isPortInUse(boot.host)
         THEN BootCatch(boot, "Port 5432 is already in use")
       ELSE IF ~boot.host.fileExists
         THEN BootCatch(boot, "docker-compose.yml not found")
       ELSE [boot EXCEPT !.pc = "composing",
                         !.composeCmd = getDockerComposeCommand(boot.host)]
  /\ UNCHANGED <<env, store, nextId, req, posts, probe, tool, cli, ing, chat, session, demo>>

\* the child closes with an exit code: 0 resolves, any other rejects
BootComposeClosed(code) ==
  /\ boot.pc = "composing"
  /\ boot' =
       IF code = 0
         THEN [boot EXCEPT !.pc = "waiting", !.closeCode = code]
         ELSE [BootCatch(boot, "Docker compose failed") EXCEPT
                 !.closeCode = code]
  /\ UNCHANGED <<env, store, nextId, req, posts, probe, tool, cli, ing, chat, session, demo>>

\* the child could not be spawned
BootComposeError ==
  /\ boot.pc = "composing"
  /\ boot' = [BootCatch(boot, "Failed to start Docker compose") EXCEPT
                !.closeCode = -1]
  /\ UNCHANGED <<env, store, nextId, req, posts, probe, tool, cli, ing, chat, session, demo>>

\* waitForDatabase: one round of the loop with pg_isready succeeding
BootDatabaseReady ==
  /\ boot.pc = "waiting"
  /\ boot.elapsed < MAX_WAIT_TIME
  /\ boot' = [boot EXCEPT !.pc = "returned", !.attempts = @ + 1]
  /\ UNCHANGED <<env, store, nextId, req, posts, probe, tool, cli, ing, chat, session, demo>>

\* one round with pg_isready failing after t ms (0 or 500), then the pause
BootDatabaseNotReady(t) ==
  /\ boot.pc = "waiting"
  /\ boot.elapsed < MAX_WAIT_TIME
  /\ boot' = [boot EXCEPT !.attempts = @ + 1,
                          !.elapsed = @ + t + CHECK_INTERVAL]
  /\ UNCHANGED <<env, store, nextId, req, posts, probe, tool, cli, ing, chat, session, demo>>

\* the loop ends and waitForDatabase throws
BootTimedOut ==
  /\ boot.pc = "waiting"
  /\ boot.elapsed >= MAX_WAIT_TIME
  /\ boot' = BootCatch(boot, "Database failed to become ready")
  /\ UNCHANGED <<env, store, nextId, req, posts, probe, tool, cli, ing, chat, session, demo>>

\* ------------------------------------------------------------------------
\* ChatProvider: the chat of one browser tab and its saved session
\* ------------------------------------------------------------------------
\* The clock of the browser counts in steps of 12 hours.
maxSessionAge == 2

\* what sessionStorage holds under 'rag-chat-session'
NoSaved == [kind |-> "none", messages |-> <<>>, timestamp |-> 0]

\* text that JSON.parse rejects
Unparseable == [kind |-> "unparseable", messages |-> <<>>, timestamp |-> 0]

\* the text null
JsonNull == [kind |-> "null", messages |-> <<>>, timestamp |-> 0]

\* an object with a timestamp and without messages
SavedWithoutMessages(ts) ==
  [kind |-> "noMessages", messages |-> <<>>, timestamp |-> ts]

SessionData(m, ts) == [kind |-> "session", messages |-> m, timestamp |-> ts]

\* The load effect on what getItem gave at time now: whether it throws (and
\* the catch block removes the item) and which messages it restores.
LoadEffect(saved, now) ==
  LET sessionAge == now - saved.timestamp
  IN  IF saved.kind = "none"
        THEN [threw |-> FALSE, restored |-> <<>>]
      ELSE IF saved.kind \in {"unparseable", "null"}
        THEN [threw |-> TRUE, restored |-> <<>>]
      ELSE IF saved.kind = "noMessages"
        THEN [threw |-> sessionAge < maxSessionAge, restored |-> <<>>]
      ELSE IF sessionAge < maxSessionAge /\ Len(saved.messages) > 0
        THEN [threw |-> FALSE, restored |-> saved.messages]
      ELSE [threw |-> FALSE, restored |-> <<>>]

\* mounted: the page is loaded; messages, status: the state of useChat;
\* chatMessages: the messages of the request in flight; dirty: the messages
\* changed and the render that runs the save effect is still to come;
\* cleared: nothing was sent since the chat was last cleared
IdleSession ==
  [mounted |-> FALSE, storage |-> NoSaved, messages |-> <<>>,
   chatMessages |-> <<>>, status |-> "ready", dirty |-> FALSE,
   now |-> 0, submits |-> 0, cleared |-> FALSE]

\* The page loads: the first render has no messages, the load effect runs
\* and then the save effect of that render, which sees no messages.
SessionMounted ==
  /\ ~session.mounted
  /\ LET l == LoadEffect(session.storage, session.now)
     IN  session' = [session EXCEPT
           !.mounted = TRUE,
           !.storage = IF l.threw THEN NoSaved ELSE @,
           !.messages = l.restored,
           !.chatMessages = <<>>,
           !.status = "ready",
           !.dirty = l.restored # <<>>,
           !.cleared = FALSE]
  /\ UNCHANGED <<env, store, nextId, req, posts, probe, tool, cli, ing, chat, boot, demo>>

\* the render after a change of the messages runs the save effect
SaveEffect ==
  /\ session.mounted /\ session.dirty
  /\ session' = [session EXCEPT
       !.dirty = FALSE,
       !.storage = IF Len(session.messages) > 0
                   THEN SessionData(session.messages, session.now)
                   ELSE @]
  /\ UNCHANGED <<env, store, nextId, req, posts, probe, tool, cli, ing, chat, boot, demo>>

\* setItem throws (the quota is used up): the catch block only warns
SaveEffectFailed ==
  /\ session.mounted /\ session.dirty
  /\ Len(session.messages) > 0
  /\ session' = [session EXCEPT !.dirty = FALSE]
  /\ UNCHANGED <<env, store, nextId, req, posts, probe, tool, cli, ing, chat, boot, demo>>

\* handleSubmit: the user's message is appended and the request is sent
SessionSubmit ==
  /\ session.mounted
  /\ session.status \in {"ready", "error"}
  /\ LET chatMessages == Append(session.messages, "question")
     IN  session' = [session EXCEPT
           !.messages = chatMessages,
           !.chatMessages = chatMessages,
           !.status = "submitted",
           !.dirty = TRUE,
           !.submits = @ + 1,
           !.cleared = FALSE]
  /\ UNCHANGED <<env, store, nextId, req, posts, probe, tool, cli, ing, chat, boot, demo>>

\* a part of the reply arrives: the messages become those of the request
\* followed by the reply so far
SessionStreamUpdate ==
  /\ session.mounted
  /\ session.status \in {"submitted", "streaming"}
  /\ session' = [session EXCEPT
       !.messages = Append(session.chatMessages, "reply"),
       !.status = "streaming",
       !.dirty = TRUE]
  /\ UNCHANGED <<env, store, nextId, req, posts, probe, tool, cli, ing, chat, boot, demo>>

\* the reply has ended, or the request has failed
SessionStreamEnded(status) ==
  /\ session.mounted
  /\ session.status \in {"submitted", "streaming"}
  /\ session' = [session EXCEPT !.status = status]
  /\ UNCHANGED <<env, store, nextId, req, posts, probe, tool, cli, ing, chat, boot, demo>>

\* clearChat: setMessages([]) and removeItem
clearChat ==
  /\ session.mounted
  /\ Len(session.messages) > 0
  /\ session' = [session EXCEPT
       !.messages = <<>>,
       !.storage = NoSaved,
       !.dirty = TRUE,
       !.cleared = TRUE]
  /\ UNCHANGED <<env, store, nextId, req, posts, probe, tool, cli, ing, chat, boot, demo>>

\* the tab leaves the page (to load it again): the state of useChat and a
\* request in flight are gone, sessionStorage stays
SessionUnmounted ==
  /\ session.mounted
  /\ session' = [session EXCEPT
       !.mounted = FALSE, !.messages = <<>>, !.chatMessages = <<>>,
       !.status = "ready", !.dirty = FALSE, !.cleared = FALSE]
  /\ UNCHANGED <<env, store, nextId, req, posts, probe, tool, cli, ing, chat, boot, demo>>

\* 12 hours pass
SessionTick ==
  /\ session' = [session EXCEPT !.now = @ + 1]
  /\ UNCHANGED <<env, store, nextId, req, posts, probe, tool, cli, ing, chat, boot, demo>>

\* ------------------------------------------------------------------------
\* The pipeline demo page (data pipeline; the query pipeline page has the
\* same handlers with timers of 1500 and 500 ms)
\* ------------------------------------------------------------------------
\* DATA_PIPELINE_STEPS.length
PIPELINE_STEPS == 6

\* The timers, in steps of 400 ms: runStep ends after 2000 ms, the pause
\* between two steps of the full run lasts 800 ms.
STEP_TIME == 5
PAUSE_TIME == 2

StepIndexes == 0..(PIPELINE_STEPS - 1)

\* kind "next": the timer of a runStep awaited by runNextStep; "full": the
\* timer of a runStep awaited by runFullPipeline; "pause": the pause of
\* runFullPipeline after step number step.  left: the time still to run.
Timer(k, i, t) == [kind |-> k, step |-> i, left |-> t]

\* pipelineData[step.id] is absent ("none"), processing or completed; the
\* handlers see the state of the latest render
IdleDemo ==
  [currentStep |-> 0, isRunning |-> FALSE,
   pipelineData |-> [i \in StepIndexes |-> "none"],
   timers |-> <<>>, inputs |-> 0]

\* resetDemo
resetDemo(d) ==
  [d EXCEPT !.currentStep = 0,
            !.pipelineData = [i \in StepIndexes |-> "none"],
            !.isRunning = FALSE]

\* runStep up to its setTimeout, awaited by the handler of kind k
runStep(d, k, i) ==
  [d EXCEPT !.isRunning = TRUE,
            !.pipelineData[i] = "processing",
            !.timers = Append(@, Timer(k, i, STEP_TIME))]

\* the Next Step button (disabled while isRunning or at the end), and the
\* keys Space and ArrowRight with the same two tests: runNextStep
DemoNextStep ==
  /\ ~demo.isRunning
  /\ demo.currentStep < PIPELINE_STEPS
  /\ demo' = [runStep(demo, "next", demo.currentStep) EXCEPT !.inputs = @ + 1]
  /\ UNCHANGED <<env, store, nextId, req, posts, probe, tool, cli, ing, chat, boot, session>>

\* the Run Full button (disabled while isRunning or past step 0):
\* runFullPipeline up to its first await
DemoRunFull ==
  /\ ~demo.isRunning
  /\ demo.currentStep = 0
  /\ demo' = [runStep(resetDemo(demo), "full", 0) EXCEPT !.inputs = @ + 1]
  /\ UNCHANGED <<env, store, nextId, req, posts, probe, tool, cli, ing, chat, boot, session>>

\* the Reset button (disabled while isRunning), or Ctrl+R, which calls
\* resetDemo without a test
DemoReset(byKey) ==
  /\ byKey \/ ~demo.isRunning
  /\ demo' = [resetDemo(demo) EXCEPT !.inputs = @ + 1]
  /\ UNCHANGED <<env, store, nextId, req, posts, probe, tool, cli, ing, chat, boot, session>>

\* the index of the timer that fires next: the oldest one that is due
Due(d) == {n \in DOMAIN d.timers : d.timers[n].left = 0}

\* the callback of runStep's timer: the step is completed, isRunning is
\* false, and the awaiting handler goes on
StepTimerFired(d, t) ==
  LET done == [d EXCEPT !.pipelineData[t.step] = "completed",
                        !.isRunning = FALSE]
  IN  IF t.kind = "next"
        THEN [done EXCEPT !.currentStep = @ + 1]
      ELSE IF t.step < PIPELINE_STEPS - 1
        THEN [done EXCEPT !.currentStep = t.step + 1,
                          !.timers = Append(@, Timer("pause", t.step, PAUSE_TIME))]
      ELSE [done EXCEPT !.currentStep = t.step + 1]

\* a timer fires
DemoTimer ==
  /\ Due(demo) # {}
  /\ LET n == CHOOSE m \in Due(demo) : \A k \in Due(demo) : m <= k
         t == demo.timers[n]
         rest == [demo EXCEPT !.timers =
                   [m \in 1..(Len(@) - 1) |-> IF m < n THEN @[m] ELSE @[m + 1]]]
     IN  demo' = IF t.kind = "pause"
                   THEN runStep(rest, "full", t.step + 1)
                   ELSE StepTimerFired(rest, t)
  /\ UNCHANGED <<env, store, nextId, req, posts, probe, tool, cli, ing, chat, boot, session>>

\* 400 ms pass while no timer is due
DemoTick ==
  /\ demo.timers # <<>>
  /\ Due(demo) = {}
  /\ demo' = [demo EXCEPT !.timers =
                [n \in DOMAIN @ |-> [@[n] EXCEPT !.left = @ - 1]]]
  /\ UNCHANGED <<env, store, nextId, req, posts, probe, tool, cli, ing, chat, boot, session>>

\* ------------------------------------------------------------------------
\* Specifications
\* ------------------------------------------------------------------------
Envs == [DATABASE_URL : BOOLEAN, OPENAI_API_KEY : BOOLEAN]

SmallFile ==
  <<Segment("c", <<Word("", 5)>>, 0), Segment("", <<>>, 2),
    Segment("d", <<Word("", 6)>>, 1)>>

\* the sequence stands past every id it has given out
MaxId(rows) ==
  IF rows = <<>> THEN 0
  ELSE CHOOSE m \in {rows[k].id : k \in DOMAIN rows} :
         \A k \in DOMAIN rows : rows[k].id <= m

InitWith(rows) ==
  /\ env \in Envs
  /\ store = rows
  /\ nextId = MaxId(rows) + 1
  /\ req = [r \in Reqs |-> IdleReq]
  /\ posts = 0
  /\ probe = IdleProbe
  /\ tool = IdleTool
  /\ cli = IdleCli
  /\ ing = IdleIng
  /\ chat = IdleChat
  /\ boot = IdleBoot
  /\ session = IdleSession
  /\ demo = IdleDemo

Init == InitWith(<<>>)

\* One client of the embed endpoint sending any body, and the count probe
Next ==
  \/ posts < MaxPosts /\ \E body \in Bodies : PostStart(1, body)
  \/ PostEmbedded(1)
  \/ \E kind \in ProviderFailures : PostEmbedFailed(1, kind)
  \/ PostInserted(1)
  \/ \E kind \in StorageFailures : PostInsertFailed(1, kind)
  \/ GetCount
  \/ \E kind \in StorageFailures : GetFailed(kind)

Spec == Init /\ [][Next]_vars

\* Concurrent requests, the count probe, a tool call and an ingestion run
ConcBodies ==
  {Obj(Str("a", 1), Str("t", MAX_SOURCE)), Obj(Str("", 0), Str("u", MAX_SOURCE + 1))}

InitConc == InitWith(<<>>) /\ env = [DATABASE_URL |-> TRUE, OPENAI_API_KEY |-> TRUE]

NextConc ==
  \/ posts < MaxConcPosts /\ \E r \in Reqs, body \in ConcBodies : PostStart(r, body)
  \/ \E r \in Reqs : PostEmbedded(r)
  \/ \E r \in Reqs : PostEmbedFailed(r, "quota")
  \/ \E r \in Reqs : PostInserted(r)
  \/ \E r \in Reqs : PostInsertFailed(r, "dbOther")
  \/ GetCount
  \/ GetFailed("connRefused")
  \/ ToolCall("a")
  \/ ToolEmbedded
  \/ \E kind \in {"network", "connRefused"} : ToolFailed(kind)
  \/ ToolQueried
  \/ \E raw \in {SmallFile, Unreadable} : IngestStart(raw)
  \/ IngestEmbedded
  \/ \E kind \in {"quota", "connRefused"} : IngestFailed(kind)
  \/ IngestInserted

SpecConc == InitConc /\ [][NextConc]_vars

\* Retrieval over stores that already hold rows: one client of the embed
\* endpoint sending valid bodies, and the search tool
SearchBodies == {Obj(Str("a", 1), Str("s", 1)), Obj(Str("b", MAX_CONTENT), Str("t", MAX_SOURCE))}

\* stores left by earlier requests and ingestion runs
ProbeStores ==
  {<<>>,
   <<Row(1, Str("a", 1), EmbeddingOf("a"), Str("s", 1))>>,
   <<Row(1, Str("a", 1), EmbeddingOf("a"), Str("s", 1)),
     Row(2, Str("d", 6), EmbeddingOf("d"), FileName),
     Row(4, Str("b", MAX_CONTENT), EmbeddingOf("b"), Str("t", MAX_SOURCE))>>}

\* n rows left by earlier requests with the same content
Copies(n, txt) ==
  [k \in 1..n |-> Row(k, Str(txt, 1), ParseVector(VectorString(EmbeddingOf(txt))),
                      Str("s", 1))]

InitSearch ==
  /\ \E rows \in ProbeStores \cup {Copies(TOP_N, "a")} : InitWith(rows)
  /\ env = [DATABASE_URL |-> TRUE, OPENAI_API_KEY |-> TRUE]

NextSearch ==
  \/ posts < MaxSearchPosts /\ \E body \in SearchBodies : PostStart(1, body)
  \/ PostEmbedded(1)
  \/ \E kind \in ProviderFailures : PostEmbedFailed(1, kind)
  \/ PostInserted(1)
  \/ \E kind \in StorageFailures : PostInsertFailed(1, kind)
  \/ \E q \in QueryTexts : ToolCall(q)
  \/ ToolEmbedded
  \/ \E kind \in ProviderFailures \cup StorageFailures : ToolFailed(kind)
  \/ ToolQueried

SpecSearch == InitSearch /\ [][NextSearch]_vars

\* The search tool and the query script over a store that does not change
\* also the same text stored twice: added through the endpoint and ingested
InitProbe ==
  /\ \E rows \in ProbeStores
                 \cup {<<Row(1, Str("a", 1), EmbeddingOf("a"), Str("s", 1)),
                          Row(2, Str("a", 1), EmbeddingOf("a"), FileName)>>} :
       InitWith(rows)
  /\ env = [DATABASE_URL |-> TRUE, OPENAI_API_KEY |-> TRUE]

NextProbe ==
  \/ \E q \in QueryTexts : ToolCall(q)
  \/ ToolEmbedded
  \/ \E kind \in ProviderFailures \cup StorageFailures : ToolFailed(kind)
  \/ ToolQueried
  \/ \E arg \in QueryTexts \cup {NoArg} : CliStart(arg)
  \/ CliEmbedded
  \/ \E kind \in ProviderFailures \cup StorageFailures : CliFailed(kind)
  \/ CliQueried

SpecProbe == InitProbe /\ [][NextProbe]_vars

\* The three request handlers side by side: a chat request whose steps call
\* the search tool, one client of the embed endpoint and the count probe,
\* next to an ingestion run over a small file
ChatPostBodies == {BadJson, Obj(Str("a", 1), Str("s", 1))}

InitChat ==
  /\ \E rows \in {<<>>, <<Row(1, Str("d", 6), EmbeddingOf("d"), FileName)>>} :
       InitWith(rows)
  /\ env = [DATABASE_URL |-> TRUE, OPENAI_API_KEY |-> TRUE]

NextChat ==
  \/ \E body \in ChatBodies : ChatStart(body)
  \/ ChatAnswered
  \/ ChatModelFailed("network")
  \/ \E q \in {"a", "c"} : ChatCallsTool(q)
  \/ ChatToolDone
  \/ ToolEmbedded
  \/ \E kind \in {"quota", "noTable"} : ToolFailed(kind)
  \/ ToolQueried
  \/ posts < MaxChatPosts /\ \E body \in ChatPostBodies : PostStart(1, body)
  \/ PostEmbedded(1)
  \/ PostEmbedFailed(1, "auth")
  \/ PostInserted(1)
  \/ PostInsertFailed(1, "noTable")
  \/ GetCount
  \/ GetFailed("noTable")
  \/ IngestStart(SmallFile)
  \/ IngestEmbedded
  \/ IngestFailed("connRefused")
  \/ IngestInserted

SpecChat == InitChat /\ [][NextChat]_vars

\* An ingestion run over one of a set of input files
WordLengths == {40, 300, MAX_CHUNK_LENGTH, 600}

\* the paragraphs of up to MaxWords words
Paragraphs ==
  UNION {{[k \in 1..n |-> Word(IF k = 1 THEN "" ELSE seps[k], lens[k])] :
            lens \in [1..n -> WordLengths], seps \in [1..n -> {"\n", " "}]} :
         n \in 1..MaxWords}

\* fourteen words of 40 characters: longer than a chunk, with short pieces
ManyWords == [k \in 1..14 |-> Word(IF k = 1 THEN "" ELSE " ", 40)]

\* a file of MaxParagraphs short paragraphs whose texts differ
ManyParagraphs ==
  [k \in 1..MaxParagraphs |->
     Segment(<<"a", "b", "c", "d">>[(k % 4) + 1], <<Word("", 3)>>, 0)]

SmallFileReversed ==
  <<Segment("d", <<Word("", 6)>>, 1), Segment("", <<>>, 2),
    Segment("c", <<Word("", 5)>>, 0)>>

EmptyFile == <<Segment("", <<>>, 3)>>

IngestFiles ==
  {Unreadable, EmptyFile, SmallFile, SmallFileReversed, ManyParagraphs,
   <<Segment("c", <<Word("", 5)>>, 0), Segment("p", ManyWords, 0)>>}
  \cup {<<Segment("p", w, 0)>> : w \in Paragraphs}

InitIngest ==
  /\ \E rows \in {<<>>, <<Row(1, Str("a", 1), EmbeddingOf("a"), Str("s", 1))>>} :
       InitWith(rows)
  /\ env = [DATABASE_URL |-> TRUE, OPENAI_API_KEY |-> TRUE]

NextIngest ==
  \/ \E raw \in IngestFiles : IngestStart(raw)
  \/ IngestEmbedded
  \/ \E kind \in {"quota", "connRefused"} : IngestFailed(kind)
  \/ IngestInserted
  \/ IngestPaused

SpecIngest == InitIngest /\ [][NextIngest]_vars

\* Two addContent requests with different bodies, each handled once, racing
\* with each other and with an ingestion run
RaceBodies ==
  {Obj(Str("a", 1), Str("s", 1)), Obj(Str("b", MAX_CONTENT), Str("t", MAX_SOURCE))}


NextRace ==
  \/ \E r \in Reqs, body \in RaceBodies : req[r].pc = "idle" /\ PostStart(r, body)
  \/ \E r \in Reqs : PostEmbedded(r)
  \/ \E r \in Reqs : PostEmbedFailed(r, "network")
  \/ \E r \in Reqs : PostInserted(r)
  \/ \E r \in Reqs : PostInsertFailed(r, "connRefused")
  \/ IngestStart(SmallFile)
  \/ IngestEmbedded
  \/ IngestFailed("connRefused")
  \/ IngestInserted

SpecRace == InitConc /\ [][NextRace]_vars


\* One run of the Docker bootstrap script on any host
NextBoot ==
  \/ \E h \in Hosts : BootStart(h)
  \/ BootChecks
  \/ \E code \in {0, 1} : BootComposeClosed(code)
  \/ BootComposeError
  \/ BootDatabaseReady
  \/ \E t \in {0, 500} : BootDatabaseNotReady(t)
  \/ BootTimedOut

SpecBoot == InitConc /\ [][NextBoot]_vars

\* One browser tab: what its sessionStorage holds when the page is first
\* loaded, then page loads, messages sent, replies, Clear Chat and time
SavedValues ==
  {NoSaved, Unparseable, JsonNull}
    \cup {SavedWithoutMessages(ts) : ts \in {-2, 0}}
    \cup {SessionData(m, ts) : m \in {<<>>, <<"question", "reply">>},
                               ts \in {-2, -1, 0}}

InitSession ==
  /\ env = [DATABASE_URL |-> TRUE, OPENAI_API_KEY |-> TRUE]
  /\ store = <<>>
  /\ nextId = 1
  /\ req = [r \in Reqs |-> IdleReq]
  /\ posts = 0
  /\ probe = IdleProbe
  /\ tool = IdleTool
  /\ cli = IdleCli
  /\ ing = IdleIng
  /\ chat = IdleChat
  /\ boot = IdleBoot
  /\ session \in {[IdleSession EXCEPT !.storage = sv] : sv \in SavedValues}
  /\ demo = IdleDemo

NextSession ==
  \/ SessionMounted
  \/ SaveEffect
  \/ SaveEffectFailed
  \/ session.submits < MaxSubmits /\ SessionSubmit
  \/ SessionStreamUpdate
  \/ \E status \in {"ready", "error"} : SessionStreamEnded(status)
  \/ clearChat
  \/ SessionUnmounted
  \/ session.now < MaxClock /\ SessionTick

SpecSession == InitSession /\ [][NextSession]_vars

\* One visit of the pipeline demo page: clicks, keys and timers
NextDemo ==
  \/ demo.inputs < MaxInputs /\ DemoNextStep
  \/ demo.inputs < MaxInputs /\ DemoRunFull
  \/ demo.inputs < MaxInputs /\ \E byKey \in BOOLEAN : DemoReset(byKey)
  \/ DemoTimer
  \/ DemoTick

SpecDemo == InitConc /\ [][NextDemo]_vars

\* ========================================================================
\* Properties
\* ========================================================================
Range(f) == {f[i] : i \in DOMAIN f}
Handled(r) == req[r].pc # "idle"
Rejected(r) ==
  req[r].pc = "done" /\ req[r].response.status = 400
                     /\ req[r].response.error = "Validation failed"
Names(r, f) == \E i \in DOMAIN req[r].response.details :
                 req[r].response.details[i].field = f
StringFields(b) ==
  b.json = "object" /\ b.content.type = "string" /\ b.source.type = "string"

\* C1: a request whose content and source are strings is rejected by
\* validation exactly when the length of content is outside 1..10000 or
\* the length of source is outside 1..255; an over-long content is reported
\* under the field content and an over-long source under the field source.
C1_ValidationBoundaries ==
  \A r \in Reqs :
    Handled(r) /\ StringFields(req[r].body) =>
      LET c == req[r].body.content.len
          s == req[r].body.source.len
      IN  /\ Rejected(r) <=> ~(1 <= c /\ c <= 10000 /\ 1 <= s /\ s <= 255)
          /\ c > 10000 => Names(r, "content")
          /\ s > 255 => Names(r, "source")
          /\ (c <= 10000 /\ c >= 1) => ~Names(r, "content")
          /\ (s <= 255 /\ s >= 1) => ~Names(r, "source")

\* content of 10,000 characters with a source of 255 characters got through
\* validation and was stored
C1_Witness ==
  /\ req[1].pc = "done"
  /\ req[1].body.content.len = 10000
  /\ req[1].body.source.len = 255
  /\ req[1].response.status = 200

FieldInvalid(v, max) == v.type # "string" \/ v.len < 1 \/ v.len > max

\* C2: an empty content or an empty source is rejected whatever the other
\* field holds, and when both fields are invalid the one 400 response names
\* content and source in its details.
C2_BothErrorsReported ==
  \A r \in Reqs :
    Handled(r) /\ req[r].body.json = "object" =>
      LET c == req[r].body.content
          s == req[r].body.source
      IN  /\ (c = Str("", 0) \/ s = Str("", 0)) => Rejected(r)
          /\ (FieldInvalid(c, 10000) /\ FieldInvalid(s, 255)) =>
               Rejected(r) /\ Names(r, "content") /\ Names(r, "source")

\* an empty content together with a source of 256 characters: two details
C2_Witness ==
  /\ Rejected(1)
  /\ req[1].body.content = Str("", 0)
  /\ req[1].body.source.len = 256
  /\ Len(req[1].response.details) = 2

Succeeds(r) ==
  req[r].pc = "inserting" /\ req'[r].pc = "done" /\ req'[r].response.status = 200

\* C3: the step in which addContent succeeds adds exactly one row to the
\* store; the row holds the content and the source of the request and the
\* vector the provider gives for that content, and the response carries the
\* id of the row.
C3_OneRowCommitted ==
  [][\A r \in Reqs :
       Succeeds(r) =>
         store' = Append(store, Row(req'[r].response.id, req[r].body.content,
                                    EmbeddingOf(req[r].body.content.txt),
                                    req[r].body.source))]_vars

\* a request has succeeded and its row is the last of two
C3_Witness ==
  /\ req[1].pc = "done" /\ req[1].response.status = 200
  /\ Len(store) = 2
  /\ store[2].id = req[1].response.id
  /\ store[2].content = req[1].body.content


\* C4: the totalEmbeddings a count probe answers with is the number of rows
\* in the store when it reads, whatever requests, tool calls and ingestion
\* steps came before; the step in which an addContent succeeds raises the
\* number of rows, and with it the count a probe reads, by exactly one, and
\* a step in which no insert succeeds leaves it as it was.
C4_CountMatchesRows ==
  [][/\ (probe' # probe /\ probe'.response.status = 200) =>
          probe'.response.totalEmbeddings = Len(store)
     /\ \A r \in Reqs :
          Succeeds(r) =>
            parseInt(CountText(Len(store'))) = parseInt(CountText(Len(store))) + 1
     /\ ((\A r \in Reqs : ~Succeeds(r)) /\ ing'.j <= ing.j) =>
          Len(store') = Len(store)]_vars

\* the probe has read 3 rows after a request succeeded and the ingestion
\* run stored its two chunks
C4_Witness ==
  /\ probe.response.status = 200
  /\ probe.response.totalEmbeddings = 3
  /\ Len(store) = 3
  /\ \E r \in Reqs : req[r].pc = "done" /\ req[r].response.status = 200
  /\ ing.pc = "exited" /\ ing.j = 2
  /\ tool.pc = "returned"


RowOf(rows, id) == rows[CHOOSE k \in DOMAIN rows : rows[k].id = id]

\* the rows added by requests that had succeeded when the tool was called
\* and whose content is the query of the call
AddedAndAsked == {id \in tool.known : RowOf(store, id).content.txt = tool.query}

C7_TopFiveRanked ==
  [][(tool.pc = "querying" /\ tool'.pc = "returned") =>
       LET res == tool'.results
           ids == tool'.ids
           n == IF Len(store) < 5 THEN Len(store) ELSE 5
       IN  /\ Len(res) = n /\ Len(ids) = n
           /\ \A i \in 1..n : /\ res[i].rank = i
                              /\ \E k \in DOMAIN store :
                                   /\ store[k].id = ids[i]
                                   /\ store[k].content = res[i].content
                                   /\ store[k].source = res[i].source
           /\ \A i, j \in 1..n :
                /\ i # j => ids[i] # ids[j]
                /\ i < j => DistLeq(tool.qVec, RowOf(store, ids[i]).embedding,
                                    RowOf(store, ids[j]).embedding)]_vars

\* five of six rows returned, the one row with the query's content first
C7_Witness ==
  /\ tool.pc = "returned"
  /\ Len(store) = 6
  /\ Len(tool.results) = 5
  /\ tool.query = "b"
  /\ tool.results[1].content.txt = "b"
  /\ tool.results[5].content.txt = "a"
  /\ tool.results[5].rank = 5

\* C8: over a store with no row, a tool call whose embedding and statement
\* succeed returns the empty list, and a run of the query script whose
\* embedding and statement succeed prints no row and ends with status 0.
C8_EmptyStore ==
  store = <<>> =>
    /\ (tool.pc \in {"returned", "threw"} /\ tool.error = "") =>
         tool.pc = "returned" /\ tool.results = <<>>
    /\ (cli.pc = "exited" /\ cli.error = "") =>
         cli.exitCode = 0 /\ cli.printed = <<>>

\* both have searched the empty store
C8_Witness ==
  /\ store = <<>>
  /\ tool.pc = "returned" /\ tool.results = <<>>
  /\ cli.pc = "exited" /\ cli.exitCode = 0


PassedValidation(r) ==
  req[r].pc = "done" /\ req[r].body.json = "object"
                     /\ ~FieldInvalid(req[r].body.content, 10000)
                     /\ ~FieldInvalid(req[r].body.source, 255)

\* C9: a request that passed validation and failed is answered by the kind
\* of its failure: 500 when DATABASE_URL or OPENAI_API_KEY is unset, 429
\* when the provider's quota is exhausted, 401 when the provider rejects
\* the key, 500 with the run-the-schema-setup message when the table is
\* missing, 500 when the database refuses the connection, and the generic
\* 500 "Failed to embed content" for any other failure.
C9_StatusByFailure ==
  \A r \in Reqs :
    (PassedValidation(r) /\ req[r].response.status # 200) =>
      LET rsp == req[r].response
          k == rsp.cause
      IN  /\ k \in {"noDatabaseUrl", "noApiKey"} => rsp.status = 500
          /\ k = "noDatabaseUrl" <=> ~env.DATABASE_URL
          /\ k = "noApiKey" <=> (env.DATABASE_URL /\ ~env.OPENAI_API_KEY)
          /\ k = "quota" => rsp.status = 429
          /\ k = "auth" => rsp.status = 401
          /\ k = "noTable" =>
               /\ rsp.status = 500
               /\ rsp.error = "Database table not found. Please run the database schema setup."
          /\ k = "connRefused" =>
               /\ rsp.status = 500
               /\ rsp.error = "Database connection failed. Please ensure the database is running."
          /\ k \in {"network", "dbOther"} =>
               rsp.status = 500 /\ rsp.error = "Failed to embed content"
          /\ k \in {"noDatabaseUrl", "noApiKey", "quota", "auth", "noTable",
                    "connRefused", "network", "dbOther"}

\* a valid request met an exhausted quota and got 429
C9_Witness ==
  /\ PassedValidation(1)
  /\ req[1].response.cause = "quota"
  /\ req[1].response.status = 429

Malformed(b) ==
  \/ b.json # "object"
  \/ FieldInvalid(b.content, 10000)
  \/ FieldInvalid(b.source, 255)

\* C10: every request with a malformed body (not JSON, not an object, a
\* field missing, not a string, empty or over-long) is answered with status
\* 400 and details that name each offending field; none is answered 5xx.
C10_MalformedIs400 ==
  \A r \in Reqs :
    (Handled(r) /\ Malformed(req[r].body)) =>
      /\ req[r].pc = "done"
      /\ req[r].response.status = 400
      /\ req[r].response.details # <<>>
      /\ (req[r].body.json = "object" /\ FieldInvalid(req[r].body.content, 10000))
           => Names(r, "content")
      /\ (req[r].body.json = "object" /\ FieldInvalid(req[r].body.source, 255))
           => Names(r, "source")

\* C11: in each of the three request handlers (embed POST, embed GET, chat
\* POST) every failure raised while one request is handled, in parsing the
\* body, in a provider call or in a storage call, is caught inside the
\* handler and answered with an error response: no handler is left by an
\* uncaught exception.
C11_NoFailureEscapes ==
  /\ chat.pc # "uncaught"
  /\ \A r \in Reqs :
       (req[r].pc = "done" /\ req[r].response.cause # "") =>
         req[r].response.status >= 400 /\ req[r].response.error # ""
  /\ (probe.pc = "done" /\ probe.response.cause # "") =>
       probe.response.status >= 400 /\ probe.response.error # ""
  /\ (chat.pc = "responded") => chat.status >= 400 /\ chat.text # ""

\* what the two handlers of the embed endpoint answer to ECONNREFUSED
ConnectivityErrors ==
  {"Database connection failed. Please ensure the database is running.",
   "Database connection failed"}

\* C12: when the storage call fails because the table is missing (42P01),
\* the insert of POST and the count probe of GET both answer with the setup
\* problem, a response other than the one they give for ECONNREFUSED.
C12_MissingTableDistinct ==
  /\ \A r \in Reqs :
       (req[r].pc = "done" /\ req[r].response.cause = "noTable") =>
         req[r].response.error \notin ConnectivityErrors
  /\ (probe.pc = "done" /\ probe.response.cause = "noTable") =>
       probe.response.error \notin ConnectivityErrors

\* the rows the ingestion run has stored, in insertion order
IngRows ==
  LET fromFile(row) == row.source = FileName
  IN  SelectSeq(store, fromFile)

\* the row stored for a chunk holds the chunk's text
HoldsChunk(row, chunk) == row.content = Str(chunk.txt, chunk.len)

\* C13: in every ingestion batch the row stored for the chunk at position j
\* holds the j-th vector the batch embedding call returned, which is the
\* vector of that chunk: a permutation of the batch's input permutes the
\* stored (chunk, embedding) pairs in the same way.
C13_BatchOrderPreserved ==
  /\ ing.pc \in {"inserting", "pausing"} =>
       /\ Len(ing.embeddings) = Len(ing.batch)
       /\ \A j \in 1..ing.j :
            /\ HoldsChunk(IngRows[ing.i + j], ing.batch[j])
            /\ IngRows[ing.i + j].embedding = ing.embeddings[j]
  /\ \A n \in 1..Len(IngRows) :
       IngRows[n].embedding = EmbeddingOf(IngRows[n].content.txt)

\* a batch of two chunks with different vectors is stored
C13_Witness ==
  /\ ing.pc = "exited" /\ ing.exitCode = 0
  /\ Len(ing.batch) = 2
  /\ Len(IngRows) = 2
  /\ IngRows[1].embedding = EmbeddingOf("d")
  /\ IngRows[2].embedding = EmbeddingOf("c")

\* C14: within one ingestion run the rows are inserted one at a time in
\* document order and the batches are processed in document order: when the
\* embedding call of a batch starts every row of the batches before it has
\* been inserted, and the insert of chunk i is over before that of chunk
\* i+1 starts.
C14_DocumentOrder ==
  /\ Len(IngRows) <= Len(ing.chunks)
  /\ \A n \in 1..Len(IngRows) : HoldsChunk(IngRows[n], ing.chunks[n])
  /\ ing.pc = "embedding" =>
       Len(IngRows) = ing.i /\ ing.i = ing.calls * BATCH_SIZE
  /\ ing.pc = "inserting" =>
       Len(IngRows) = ing.i + ing.j /\ ing.j < Len(ing.batch)
  /\ ing.pc = "pausing" => Len(IngRows) = ing.i + BATCH_SIZE

\* the embedding call of the third batch has started after 100 inserts
C14_Witness ==
  /\ ing.pc = "embedding"
  /\ ing.calls = 2
  /\ Len(IngRows) = 2 * BATCH_SIZE

\* C15: when the embedding call of batch k fails the run aborts with a
\* non-zero exit: the rows of the batches before k stay persisted, no row
\* of batch k or of a later batch is inserted and no further embedding call
\* is made.
C15_EmbeddingFailureAborts ==
  (ing.error \in ProviderFailures) =>
    /\ ing.pc = "exited" /\ ing.exitCode = 1
    /\ ing.i % BATCH_SIZE = 0
    /\ ing.calls = (ing.i \div BATCH_SIZE) + 1
    /\ Len(IngRows) = ing.i
    /\ \A n \in 1..ing.i : HoldsChunk(IngRows[n], ing.chunks[n])

\* the call for the second batch failed after the first batch was stored
C15_Witness ==
  /\ ing.error = "quota"
  /\ ing.pc = "exited"
  /\ ing.i = BATCH_SIZE
  /\ Len(IngRows) = BATCH_SIZE
  /\ Len(ing.chunks) > BATCH_SIZE

\* C16: no chunk the ingestion pipeline emits, and so no row it stores, is
\* longer than 512 characters.
C16_ChunkingBound ==
  /\ \A n \in 1..Len(ing.chunks) : ing.chunks[n].len <= MAX_CHUNK_LENGTH
  /\ \A n \in 1..Len(IngRows) : IngRows[n].content.len <= MAX_CHUNK_LENGTH

\* a piece of 512 characters cut from a longer paragraph is stored
C16_Witness ==
  \E n \in 1..Len(IngRows) :
    /\ n <= Len(ing.chunks)
    /\ ing.chunks[n].line > 0
    /\ IngRows[n].content.len = MAX_CHUNK_LENGTH

\* number of characters the end of the n-th chunk shares with the start of
\* the next one
Overlap(chunks, n) == chunks[n].from + chunks[n].len - chunks[n + 1].from

\* C17: for every paragraph longer than the maximum chunk length, each two
\* adjacent sub-chunks share an overlap (a suffix of the earlier one that is
\* a prefix of the later one) of at least 1 and at most 50 characters.
C17_AdjacentOverlap ==
  \A n \in 1..(Len(ing.chunks) - 1) :
    (ing.chunks[n].line > 0 /\ ing.chunks[n + 1].line = ing.chunks[n].line) =>
      /\ Overlap(ing.chunks, n) >= 1
      /\ Overlap(ing.chunks, n) <= CHUNK_OVERLAP

\* ceil(n / BATCH_SIZE)
BatchesOf(n) == (n + BATCH_SIZE - 1) \div BATCH_SIZE

\* C18: a run over n chunks without a failure groups the chunks into
\* consecutive batches of 50, the last one possibly smaller, makes exactly
\* ceil(n/50) batch embedding calls (none for n = 0), puts every chunk into
\* exactly one batch and stores exactly n rows, one per chunk.
C18_BatchesAndRows ==
  LET n == Len(ing.chunks)
  IN  /\ ing.pc \in {"embedding", "inserting", "pausing"} =>
           /\ ing.i % BATCH_SIZE = 0 /\ ing.i < n
           /\ ing.batch = SubSeq(ing.chunks, ing.i + 1, Min(ing.i + BATCH_SIZE, n))
           /\ ing.calls = (ing.i \div BATCH_SIZE)
                          + (IF ing.pc = "embedding" THEN 0 ELSE 1)
      /\ (ing.pc = "exited" /\ ing.exitCode = 0) =>
           /\ ing.calls = BatchesOf(n)
           /\ Len(IngRows) = n
           /\ \A k \in 1..n : HoldsChunk(IngRows[k], ing.chunks[k])

\* a run over 101 chunks ended after three calls and 101 rows
C18_Witness ==
  /\ ing.pc = "exited" /\ ing.exitCode = 0
  /\ Len(ing.chunks) > 2 * BATCH_SIZE
  /\ ing.calls = 3
  /\ Len(IngRows) = Len(ing.chunks)

\* C19: in every reachable state of the store every row, stored by the
\* ingestion run or by addContent, has a content that is not empty and a
\* source of 1 to 255 characters.
C19_RowsWellFormed ==
  \A n \in 1..Len(store) :
    /\ store[n].content.type = "string" /\ store[n].content.len >= 1
    /\ store[n].source.type = "string"
    /\ store[n].source.len >= 1 /\ store[n].source.len <= MAX_SOURCE

\* the store holds a row of the ingestion run and a row of addContent with
\* a source of 255 characters
C19_Witness ==
  /\ \E n \in 1..Len(store) : store[n].source = FileName
  /\ \E n \in 1..Len(store) : store[n].source.len = MAX_SOURCE
  /\ ing.pc = "exited" /\ ing.exitCode = 0

\* C20: the knowledge base only grows: no step of addContent, of the
\* ingestion run, of a search, of the count probe or of a chat request
\* deletes a row or changes the content, embedding or source of a row, and
\* the steps of a search, of the count probe and of a chat request leave
\* the store exactly as it was.
C20_StoreOnlyGrows ==
  [][/\ Len(store') >= Len(store)
     /\ SubSeq(store', 1, Len(store)) = store
     /\ (tool' # tool \/ probe' # probe \/ chat' # chat) => store' = store]_vars

\* rows were added by addContent and by the ingestion run, and a search of
\* a chat request and the count probe have run over them
C20_Witness ==
  /\ Len(store) >= 3
  /\ req[1].pc = "done" /\ req[1].response.status = 200
  /\ ing.pc = "exited" /\ ing.exitCode = 0
  /\ tool.pc = "returned" /\ Len(tool.results) >= 3
  /\ chat.pc = "finished" /\ chat.answered
  /\ probe.pc = "done" /\ probe.response.totalEmbeddings >= 3

Ids(rows) == {rows[k].id : k \in DOMAIN rows}

\* C21: ids are unique and given out in increasing order of creation: the
\* ids of the rows rise strictly with the order of insertion, and the id a
\* successful addContent answers with is an id no row had before and differs
\* from the id of every other successful call, also when two calls run
\* side by side.
C21_UniqueIncreasingIds ==
  /\ [](/\ \A m, n \in 1..Len(store) : m < n => store[m].id < store[n].id
        /\ \A r1, r2 \in Reqs :
             (r1 # r2 /\ req[r1].pc = "done" /\ req[r1].response.status = 200
                      /\ req[r2].pc = "done" /\ req[r2].response.status = 200) =>
               req[r1].response.id # req[r2].response.id)
  /\ [][\A r \in Reqs :
          Succeeds(r) =>
            /\ req'[r].response.id \notin Ids(store)
            /\ \A n \in 1..Len(store) : store[n].id < req'[r].response.id
            /\ store'[Len(store')].id = req'[r].response.id]_vars

\* two requests that ran side by side have both succeeded, around the rows
\* of an ingestion run
C21_Witness ==
  /\ req[1].pc = "done" /\ req[1].response.status = 200
  /\ req[2].pc = "done" /\ req[2].response.status = 200
  /\ req[1].response.id # req[2].response.id
  /\ ing.pc = "exited" /\ ing.exitCode = 0
  /\ Len(store) = 4

\* what a row holds besides its id
Payload(row) == [content |-> row.content, embedding |-> row.embedding,
                 source |-> row.source]

\* the row a successful request of slot r has to leave, without its id
PayloadOfRequest(r) ==
  [content |-> req[r].body.content,
   embedding |-> EmbeddingOf(req[r].body.content.txt),
   source |-> req[r].body.source]

PayloadOfChunk(chunk) ==
  [content |-> Str(chunk.txt, chunk.len), embedding |-> EmbeddingOf(chunk.txt),
   source |-> FileName]

Answered200(r) == req[r].pc = "done" /\ req[r].response.status = 200

\* number of chunks the ingestion run has inserted
Inserted ==
  IF ing.pc \in {"inserting", "pausing"} THEN ing.i + ing.j
  ELSE IF ing.pc = "exited" /\ ing.error \in StorageFailures THEN ing.i + ing.j
  ELSE IF ing.pc = "exited" /\ ing.exitCode = 0 THEN Len(ing.chunks)
  ELSE ing.i

\* C22: under every interleaving of two concurrent addContent requests and
\* an ingestion run, the row of each successful request is there exactly
\* once, under the id the request was answered with, and holds that
\* request's content, source and embedding; the rows of the store, ids
\* aside, are exactly those of the successful requests and of the chunks
\* inserted so far, each as often as it was inserted, whatever the order in
\* which the steps were taken.
C22_IndependentInserts ==
  /\ \A r \in Reqs :
       Answered200(r) =>
         /\ Cardinality({k \in DOMAIN store : store[k].id = req[r].response.id}) = 1
         /\ Payload(RowOf(store, req[r].response.id)) = PayloadOfRequest(r)
  /\ \A k \in DOMAIN store :
       Cardinality({n \in DOMAIN store : Payload(store[n]) = Payload(store[k])})
         = Cardinality({r \in Reqs : Answered200(r)
                                     /\ PayloadOfRequest(r) = Payload(store[k])})
           + Cardinality({n \in 1..Inserted :
                            PayloadOfChunk(ing.chunks[n]) = Payload(store[k])})
  /\ Len(store) = Cardinality({r \in Reqs : Answered200(r)}) + Inserted

\* both requests succeeded with different contents while the ingestion run
\* stored its chunks; the second slot's row came first
C22_Witness ==
  /\ Answered200(1) /\ Answered200(2)
  /\ req[1].body # req[2].body
  /\ req[2].response.id < req[1].response.id
  /\ ing.pc = "exited" /\ ing.exitCode = 0
  /\ Len(store) = 4

\* C23: when the input file cannot be read the run ends there: the failure
\* is what main's catch reports, no embedding call was made, no row was
\* inserted and the exit status is not zero; and every run that ended with
\* a failure, of reading, of the provider or of the storage, has a non-zero
\* exit status.
C23_UnreadableFileIsFatal ==
  /\ ing.error = "ENOENT" =>
       /\ ing.pc = "exited" /\ ing.exitCode # 0
       /\ ing.calls = 0
       /\ IngRows = <<>>
  /\ ing.error # "" => ing.pc = "exited" /\ ing.exitCode # 0
  /\ (ing.pc = "exited" /\ ing.exitCode = 0) => ing.error = ""

\* the run over a file that cannot be read has ended with status 1
C23_Witness ==
  /\ ing.error = "ENOENT"
  /\ ing.pc = "exited" /\ ing.exitCode = 1
  /\ ing.chunks = <<>>

\* C24: within one chat request the orchestrator takes at most 5 steps, so
\* the search tool runs in a bounded number of rounds, and a request that
\* ends without a failure of the provider or of the tool has streamed its
\* final answer, however the model chose to call the tool.
C24_BoundedAndAnswered ==
  /\ chat.steps <= MAX_STEPS
  /\ (chat.pc = "finished" /\ chat.cause = "") => chat.answered

\* the tool and the query script have both answered the same query
BothAnswered ==
  /\ tool.pc = "returned"
  /\ cli.pc = "exited" /\ cli.exitCode = 0
  /\ cli.query = tool.query

\* what holds of every listing of the query script
CliListing ==
  /\ cli.pc # "idle" => cli.query # NoArg
  /\ (cli.pc = "exited" /\ cli.exitCode = 0) =>
       /\ Len(cli.printed) = (IF Len(store) < TOP_N THEN Len(store) ELSE TOP_N)
       /\ \A i \in 1..Len(cli.printed) :
            /\ cli.printed[i].rank = i
            /\ \E k \in DOMAIN store :
                 /\ store[k].content = cli.printed[i].content
                 /\ store[k].source = cli.printed[i].source
                 /\ Score(cli.qVec, store[k].embedding) = cli.printed[i].score
       /\ \A i, j \in 1..Len(cli.printed) :
            i < j => cli.printed[i].score >= cli.printed[j].score

\* C25: for the same query over the same store the query script lists the
\* same chunks in the same rank order (1..n, at most 5) as the search tool
\* returns; each listed score is 1 minus the cosine distance, so the scores
\* do not rise with the rank; without an argument the default query is used.
C25_SameListing ==
  /\ CliListing
  /\ BothAnswered =>
       /\ Len(cli.printed) = Len(tool.results)
       /\ \A i \in 1..Len(cli.printed) :
            /\ cli.printed[i].content = tool.results[i].content
            /\ cli.printed[i].source = tool.results[i].source
            /\ cli.printed[i].rank = tool.results[i].rank

\* C25 as amended: the two listings have the same length and the same ranks
\* and, rank by rank, chunks at the same cosine distance from the query;
\* they are the same chunks in the same order when no two listed rows are at
\* the same distance.
C25_SameListingUpToTies ==
  /\ CliListing
  /\ BothAnswered =>
       /\ Len(cli.printed) = Len(tool.results)
       /\ \A i \in 1..Len(cli.printed) :
            /\ cli.printed[i].rank = tool.results[i].rank
            /\ cli.printed[i].score
                 = Score(tool.qVec, RowOf(store, tool.ids[i]).embedding)
       /\ (\A i, j \in 1..Len(cli.printed) :
             i # j => cli.printed[i].score # cli.printed[j].score) =>
            \A i \in 1..Len(cli.printed) :
              /\ cli.printed[i].content = tool.results[i].content
              /\ cli.printed[i].source = tool.results[i].source

\* both have listed the three rows of a store for the query "b", and the
\* script has also run without an argument before
C25_Witness ==
  /\ BothAnswered
  /\ tool.query = "b"
  /\ Len(cli.printed) = 3
  /\ cli.printed[1].content.txt = "b" /\ tool.results[1].content.txt = "b"
  /\ cli.printed[1].score = 10000
  /\ cli.printed[3].score < cli.printed[2].score

BootEnded == boot.pc \in {"returned", "exited"}

NoProviderCall(r) ==
  req[r].embedding = IdleReq.embedding /\ req[r].vectorString = NoVectorString

\* C27: no call of the embedding provider and no INSERT is made for a
\* request that fails validation or while DATABASE_URL or OPENAI_API_KEY is
\* unset; embed() is called only after validation and both configuration
\* tests have passed, and the INSERT is sent only after embed() succeeded.
C27_CallsOnlyWhenDue ==
  /\ [](\A r \in Reqs :
          /\ req[r].pc \in {"embedding", "inserting"} =>
               /\ req[r].body.json = "object"
               /\ embedRequestSchema(req[r].body) = <<>>
               /\ env.DATABASE_URL /\ env.OPENAI_API_KEY
          /\ req[r].pc = "embedding" => NoProviderCall(r)
          /\ req[r].pc = "inserting" =>
               req[r].vectorString
                 = VectorString(EmbeddingOf(req[r].body.content.txt))
          /\ (\/ req[r].body.json # "object"
              \/ embedRequestSchema(req[r].body) # <<>>
              \/ ~env.DATABASE_URL \/ ~env.OPENAI_API_KEY) =>
               NoProviderCall(r))
  /\ [][\A r \in Reqs :
          /\ (req'[r].pc = "embedding" /\ req[r].pc # "embedding") =>
               /\ req[r].pc \in {"idle", "done"}
               /\ embedRequestSchema(req'[r].body) = <<>>
               /\ env.DATABASE_URL /\ env.OPENAI_API_KEY
          /\ (req'[r].pc = "inserting" /\ req[r].pc # "inserting") =>
               req[r].pc = "embedding"]_vars
  /\ [][store' # store =>
          \E r \in Reqs : /\ req[r].pc = "inserting"
                          /\ req'[r].response.status = 200
                          /\ Len(store') = Len(store) + 1]_vars

\* one request was turned away by validation, the next one sends its INSERT
C27_Witness ==
  /\ req[1].pc = "inserting"
  /\ posts = 2
  /\ req[1].vectorString # NoVectorString

\* request r takes a step
Steps(r) == req'[r] # req[r]

\* request r is answered in this step
Answers(r) == req'[r].pc = "done" /\ Steps(r)

\* C28: a request to POST /api/embed that is answered without success (400,
\* 401, 429 or 500) leaves the table as it was: none of its steps changes
\* the rows, the only step of a request that does is the one answered 200.
C28_FailureLeavesStore ==
  /\ [][\A r \in Reqs :
          (Answers(r) /\ req'[r].response.status # 200) =>
            /\ req'[r].response.status \in {400, 401, 429, 500}
            /\ store' = store]_vars
  /\ [][\A r \in Reqs :
          (Steps(r) /\ store' # store) =>
            /\ Answers(r) /\ req'[r].response.status = 200
            /\ store' = Append(store, store'[Len(store')])]_vars

\* after one stored row and one other request, the third request failed at
\* its INSERT and was answered 500, and the table still has that one row
C28_Witness ==
  /\ posts = 3
  /\ req[1].pc = "done" /\ req[1].response.cause = "connRefused"
  /\ req[1].response.status = 500
  /\ Len(store) = 1
  /\ nextId = 2

\* the saved data parses, is less than 24 hours old and holds a message
Restorable(saved, now) ==
  /\ saved.kind = "session"
  /\ now - saved.timestamp < maxSessionAge
  /\ Len(saved.messages) >= 1

\* the page is being loaded in this step
Mounting == ~session.mounted /\ session'.mounted

\* C29: on mount the saved session is restored into the messages if and only
\* if it parses, is less than 24 hours old and holds at least one message;
\* saved data that fails to load is removed and nothing is restored; the
\* save effect writes only a non-empty list of messages, so mounting never
\* replaces a saved session by an empty one and clearChat leaves no saved
\* session behind.
C29_SessionRestoreAndClear ==
  /\ [][Mounting =>
          /\ Restorable(session.storage, session.now) =>
               session'.messages = session.storage.messages
          /\ ~Restorable(session.storage, session.now) =>
               session'.messages = <<>>
          /\ session.storage.kind \in {"unparseable", "null"} =>
               session'.storage = NoSaved /\ session'.messages = <<>>
          /\ session.storage.kind = "session" =>
               session'.storage = session.storage]_vars
  /\ [][session'.storage # session.storage =>
          \/ session'.storage = NoSaved
          \/ /\ session'.storage.kind = "session"
             /\ Len(session'.storage.messages) >= 1
             /\ session'.storage.messages = session.messages]_vars
  /\ [](session.cleared => session.storage = NoSaved)

Processing == {i \in StepIndexes : demo.pipelineData[i] = "processing"}

\* C30: under every interleaving of Next Step, Run Full, Reset, the keys
\* and the step and pause timers, currentStep stays between 0 and the number
\* of pipeline steps (6) and at most one step is processing at a time.
C30_StepInRangeOneProcessing ==
  /\ demo.currentStep \in 0..PIPELINE_STEPS
  /\ Cardinality(Processing) <= 1

=============================================================================
